---- MODULE Spec2Model ----
(***************************************************************************)
(* Model of the control core of Volition-DJI (src/pythonSDK/control):      *)
(* the single-axis PID controller, the composite controllers and the three *)
(* driver loops (plane_main.py, yaw_main.py, main.py).                     *)
(*                                                                         *)
(* Python floats are modelled as exact rationals <<n, d>> (d > 0, lowest   *)
(* terms).  Timestamps (time.time()) are integers counting ticks of        *)
(* 1 / TicksPerSecond seconds.  An optional value is None (<<>>) or        *)
(* Some(v) (<<v>>).                                                        *)
(***************************************************************************)
EXTENDS Integers, Sequences, FiniteSets, TLC

VARIABLES
    driver,             \* which main() runs: "plane", "yaw", "planeyaw" ("pid": a bare PIDController)
    auto,               \* PLANE_AUTO_NEXT_WAYPOINT / AUTO_NEXT_TARGET
    output_limit,       \* the output limit the controller is constructed with
    config,             \* the attributes of PlaneController that its methods only read
    reset_mask,         \* pid_reset_cfg['reset_mask']: the axes reset-on-approach resets
    pc,                 \* position of the driver inside main()
    clock,              \* time.time(), in ticks
    pose,               \* VRPNClient._pose: None or Some(pose)
    snap,               \* the pose read at the top of the current tick
    target_index,       \* waypoint_index / target_index
    target,             \* target_waypoint / current_waypoint / target_yaw
    loop_count,         \* loop_count of plane_main.py, modulo 2 (all the loop reads of it)
    reached,            \* reached
    in_tolerance_since, \* in_tolerance_since: None or Some(tick)
    pid_has_reset,      \* pid_has_reset (plane driver)
    pid_mute_until,     \* pid_mute_until (plane driver), in seconds; 0 = not muted
    pid,                \* the PIDController objects of the controller, by axis
    delay_buffer,       \* PlaneController.delay_buffer_x / delay_buffer_y
    cmd,                \* roll, pitch, yaw about to be passed to send_stick_control
    sink,               \* the last arguments of send_stick_control and the tail of what it published
    hist,               \* history of the run (what happened for the current target)
    call,               \* the last PIDController call and what it returned
    variant,            \* which mqtt_client.py: "scripts" or "pythonSDK"
    pending_requests,   \* MQTTClient.pending_requests: tid -> Future
    futures,            \* the Future objects publish() has created, by tid
    osd_data,           \* MQTTClient.osd_data (pythonSDK)
    takeoff_height,     \* MQTTClient.takeoff_height (pythonSDK): None or Some(height)
    broker,             \* the tids of the requests client.publish() has handed to the broker
    callers,            \* the threads that call publish(): position and what they hold
    receiver,           \* the network thread inside _on_message: position, payload, future
    mlog,               \* what the client has been asked so far
    running,            \* HeartbeatKeeper.running
    thread,             \* HeartbeatKeeper.thread and the position of that thread
    last_seq,           \* HeartbeatKeeper.last_seq
    perf,               \* time.perf_counter(), in ticks
    heartbeats,         \* the heartbeat payloads handed to client.publish(), in order
    keeper,             \* HeartbeatKeeper's counters, and the thread that calls start() and stop()
    setup               \* setup_drc_connection: position, objects and what it did so far

mqttVars == <<variant, pending_requests, futures, osd_data, takeoff_height, broker, callers, receiver, mlog>>
heartbeatVars == <<running, thread, last_seq, perf, heartbeats, keeper>>
sdkVars == <<mqttVars, heartbeatVars, setup>>
\* what no step of a control loop writes: its configuration and the SDK objects
cfgVars == <<driver, auto, output_limit, config, reset_mask, sdkVars>>
loopVars == <<snap, target_index, target, loop_count, reached>>
arrivalVars == <<in_tolerance_since, pid_has_reset, pid_mute_until>>
ctrlVars == <<pid, delay_buffer>>
vars == <<cfgVars, pc, clock, pose, loopVars, arrivalVars, ctrlVars, cmd, sink, hist, call>>

(***************************************************************************)
(* Bounds of the model.                                                    *)
(***************************************************************************)
\* resolution of the clock: ticks per second
TicksPerSecond == 2
\* the last tick the clock of a driver run reaches
MaxTime == 3
\* number of calls made on the bare PIDController
MaxCalls == 3
\* the largest timestamp passed to the bare PIDController
MaxStamp == 2
\* the longest delay buffer a compute() call of a driver run may leave behind
MaxBuffer == 2
\* the largest timestamp passed to the delay compensator: more than 1.0 s
MaxDelayStamp == 3
\* number of send_stick_control calls made on one client
StickCalls == 2
\* the largest timestamp of a run of compute() calls with a constant error
MaxRampStamp == 5
\* number of compute() calls made on a controller of the end-to-end scenarios
ScenarioCalls == 2
\* the largest magnitude, in degrees, of an angle passed to normalize_angle
MaxAngle == 540
\* an output limit above the 660 that keeps 1024 +/- output_limit inside [364, 1684]
OverLimit == 700

(***************************************************************************)
(* Optional values.                                                        *)
(***************************************************************************)
None == <<>>
Some(v) == <<v>>

(***************************************************************************)
(* Exact rational arithmetic standing for Python's float arithmetic.       *)
(***************************************************************************)
IAbs(n) == IF n < 0 THEN -n ELSE n

RECURSIVE GCD(_, _)
GCD(a, b) == IF b = 0 THEN a ELSE GCD(b, a % b)

\* n/d in lowest terms; a quotient whose divisor is 0 (ZeroDivisionError in
\* the program) is the pair with denominator 0, which every operation keeps
Rat(n, d) ==
    LET s == IF d < 0 THEN -1 ELSE 1
        g == IF n = 0 /\ d = 0 THEN 1 ELSE GCD(IAbs(n), IAbs(d))
    IN  <<(s * n) \div g, (s * d) \div g>>

Num(n) == <<n, 1>>
Zero == <<0, 1>>
Add(a, b) == Rat(a[1] * b[2] + b[1] * a[2], a[2] * b[2])
Neg(a) == <<-a[1], a[2]>>
Sub(a, b) == Add(a, Neg(b))
Mul(a, b) == Rat(a[1] * b[1], a[2] * b[2])
Div(a, b) == Rat(a[1] * b[2], a[2] * b[1])
Lt(a, b) == a[1] * b[2] < b[1] * a[2]
Le(a, b) == a[1] * b[2] <= b[1] * a[2]
Abs(a) == <<IAbs(a[1]), a[2]>>
Max(a, b) == IF Lt(a, b) THEN b ELSE a
Min(a, b) == IF Lt(b, a) THEN b ELSE a
Clamp(lim, v) == Max(Neg(lim), Min(lim, v))
\* int(x): truncation toward zero
Trunc(a) == IF a[1] >= 0 THEN a[1] \div a[2] ELSE -((-a[1]) \div a[2])
\* a number of ticks as seconds
Seconds(t) == Rat(t, TicksPerSecond)
\* Python truthiness of an optional number: None and 0 are falsy
Truthy(o) == o # None /\ o[1] # Zero

(***************************************************************************)
(* pid.py: PIDController                                                   *)
(***************************************************************************)
PIDController(kp, ki, kd, limit, threshold) ==
    [kp |-> kp, ki |-> ki, kd |-> kd,
     output_limit |-> limit, i_activation_threshold |-> threshold,
     integral |-> Zero, last_error |-> Zero, last_time |-> None]

\* a reset that forgets the error history but keeps the integral
PIDReset_KeepIntegral(p) ==
    [p EXCEPT !.last_error = Zero, !.last_time = None]

\* reset()
PIDReset(p) ==
    [p EXCEPT !.integral = Zero, !.last_error = Zero, !.last_time = None]

\* a dt that never exceeds one tick of the clock
PIDDt_Capped(p, current_time) ==
    IF p.last_time = None THEN Zero
    ELSE Min(Seconds(current_time - p.last_time[1]), Seconds(1))

\* dt = 0.0 if self.last_time is None else current_time - self.last_time
PIDDt(p, current_time) ==
    IF p.last_time = None THEN Zero ELSE Seconds(current_time - p.last_time[1])

\* a gate that freezes the integral outside the activation window
PIDIntegral_Freeze(p, error, dt) ==
    IF Lt(Zero, dt)
       /\ (p.i_activation_threshold = None \/ Le(Abs(error), p.i_activation_threshold[1]))
    THEN LET acc == Add(p.integral, Mul(error, dt))
         IN  IF Truthy(p.output_limit) /\ Lt(Zero, p.ki)
             THEN Clamp(Div(p.output_limit[1], p.ki), acc)
             ELSE acc
    ELSE p.integral

\* an integral that never accumulates
PIDIntegral_Halt(p, error, dt) == p.integral

\* an integral that accumulates without the anti-windup clamp
PIDIntegral_Unclamped(p, error, dt) ==
    IF Lt(Zero, dt)
    THEN IF p.i_activation_threshold = None
            \/ Le(Abs(error), p.i_activation_threshold[1])
         THEN Add(p.integral, Mul(error, dt))
         ELSE Zero
    ELSE p.integral

\* the "if dt > 0" block of compute(): the integral after the call
PIDIntegral(p, error, dt) ==
    IF Lt(Zero, dt)
    THEN IF p.i_activation_threshold = None
            \/ Le(Abs(error), p.i_activation_threshold[1])
         THEN LET acc == Add(p.integral, Mul(error, dt))
              IN  IF Truthy(p.output_limit) /\ Lt(Zero, p.ki)
                  THEN Clamp(Div(p.output_limit[1], p.ki), acc)
                  ELSE acc
         ELSE Zero
    ELSE p.integral

\* a derivative that divides by dt whatever dt is
PIDDerivative_Unguarded(p, error, dt) ==
    Mul(p.kd, Div(Sub(error, p.last_error), dt))

\* a derivative that takes the bare error difference when dt is not positive
PIDDerivative_Difference(p, error, dt) ==
    Mul(p.kd, IF Lt(Zero, dt) THEN Div(Sub(error, p.last_error), dt)
              ELSE Sub(error, p.last_error))

\* d_term = kd * ((error - last_error) / dt if dt > 0 else 0.0)
PIDDerivative(p, error, dt) ==
    Mul(p.kd, IF Lt(Zero, dt) THEN Div(Sub(error, p.last_error), dt) ELSE Zero)

\* an output that is never limited
PIDOutput_Raw(p, sum) == sum

\* output = p + i + d, limited to +/- output_limit when output_limit is truthy
PIDOutput(p, sum) ==
    IF Truthy(p.output_limit) THEN Clamp(p.output_limit[1], sum) ELSE sum

\* compute(): the updated controller, the output and the (p, i, d) components
PIDCompute(p, error, current_time) ==
    LET dt == PIDDt(p, current_time)
        p_term == Mul(p.kp, error)
        integral == PIDIntegral(p, error, dt)
        i_term == Mul(p.ki, integral)
        d_term == PIDDerivative(p, error, dt)
    IN  [pid |-> [p EXCEPT !.integral = integral,
                           !.last_error = error,
                           !.last_time = Some(current_time)],
         output |-> PIDOutput(p, Add(Add(p_term, i_term), d_term)),
         p |-> p_term, i |-> i_term, d |-> d_term, dt |-> dt]

(***************************************************************************)
(* config.py                                                               *)
(***************************************************************************)
KP_XY == 200
KI_XY == 30
KD_XY == 70
KP_YAW == 12
KI_YAW == 5
KD_YAW == 1
MAX_STICK_OUTPUT == 500
MAX_YAW_STICK_OUTPUT == 660
NEUTRAL == 1024
YAW_I_ACTIVATION_ERROR == 70
YAW_DEADZONE == 0
TOLERANCE_XY == Rat(10, 100)
TOLERANCE_YAW == Num(2)
ARRIVAL_STABLE_TIME == Num(1)
PLANE_ARRIVAL_STABLE_TIME == Num(1)
YAW_ARRIVAL_STABLE_TIME == Rat(5, 10)
WAYPOINTS == << <<Num(0), Num(0)>>, <<Num(-1), Num(1)>> >>
TARGET_YAWS == <<Num(0), Num(90), Num(180), Num(-90)>>
PLANE_GAIN_SCHEDULING_CONFIG ==
    [enabled |-> TRUE, distance_far |-> Num(1), distance_near |-> Rat(5, 10),
     kp_far |-> Num(1), kd_far |-> Rat(5, 10),
     kp_near |-> Rat(4, 10), kd_near |-> Rat(15, 10)]

(***************************************************************************)
(* controller.py                                                           *)
(***************************************************************************)
RECURSIVE SqrtSearch(_, _, _)
SqrtSearch(n, lo, hi) ==
    IF lo >= hi THEN lo
    ELSE LET mid == (lo + hi + 1) \div 2
         IN  IF mid * mid <= n THEN SqrtSearch(n, mid, hi)
                               ELSE SqrtSearch(n, lo, mid - 1)

\* math.sqrt / ** 0.5, rounded down to 1/100: exact where the root is a multiple
\* of 0.01, as for the poses the model uses near their targets
Sqrt(q) ==
    LET n == (q[1] * 10000) \div q[2]
    IN  Rat(SqrtSearch(n, 0, IF n < 46340 THEN n ELSE 46340), 100)

\* a normalisation that turns the angle by 360 degrees once at most
normalize_angle_Once(angle) ==
    IF Lt(Num(180), angle) THEN Sub(angle, Num(360))
    ELSE IF Lt(angle, Num(-180)) THEN Add(angle, Num(360))
    ELSE angle

RECURSIVE normalize_angle(_)
normalize_angle(angle) ==
    IF Lt(Num(180), angle) THEN normalize_angle(Sub(angle, Num(360)))
    ELSE IF Lt(angle, Num(-180)) THEN normalize_angle(Add(angle, Num(360)))
    ELSE angle

get_yaw_error(target_yaw, current_yaw) == normalize_angle(Sub(target_yaw, current_yaw))

\* PlaneYawController._normalize_angle
RECURSIVE PlaneYaw_normalize_angle(_)
PlaneYaw_normalize_angle(angle) ==
    IF Lt(Num(180), angle) THEN PlaneYaw_normalize_angle(Sub(angle, Num(360)))
    ELSE IF Lt(angle, Num(-180)) THEN PlaneYaw_normalize_angle(Add(angle, Num(360)))
    ELSE angle

get_distance(target_x, target_y, current_x, current_y) ==
    LET dx == Sub(target_x, current_x)
        dy == Sub(target_y, current_y)
    IN  Sqrt(Add(Mul(dx, dx), Mul(dy, dy)))

\* PlaneController.__init__ as plane_main.py constructs it; estimated_delay,
\* response_gain and enable_smith_predictor keep their defaults
PlaneControllerConfig ==
    [kp_base |-> Num(KP_XY), ki_base |-> Num(KI_XY), kd_base |-> Num(KD_XY),
     enable_gain_scheduling |-> PLANE_GAIN_SCHEDULING_CONFIG.enabled,
     distance_far |-> PLANE_GAIN_SCHEDULING_CONFIG.distance_far,
     distance_near |-> PLANE_GAIN_SCHEDULING_CONFIG.distance_near,
     enable_smith_predictor |-> TRUE,
     estimated_delay |-> Rat(5, 10),
     response_gain |-> Rat(15, 10000)]

\* a scheduler without interpolation: the near pair up to distance_far
GainScale_Steps(c, distance) ==
    LET g == PLANE_GAIN_SCHEDULING_CONFIG IN
    IF Lt(c.distance_far, distance) THEN <<g.kp_far, g.kd_far>>
    ELSE <<g.kp_near, g.kd_near>>

\* a scheduler that interpolates at every distance above distance_near
GainScale_Extrapolate(c, distance) ==
    LET g == PLANE_GAIN_SCHEDULING_CONFIG IN
    IF Lt(c.distance_near, distance) /\ Lt(c.distance_near, c.distance_far)
    THEN LET ratio == Div(Sub(distance, c.distance_near),
                          Sub(c.distance_far, c.distance_near))
         IN  <<Add(g.kp_near, Mul(Sub(g.kp_far, g.kp_near), ratio)),
               Add(g.kd_near, Mul(Sub(g.kd_far, g.kd_near), ratio))>>
    ELSE <<g.kp_near, g.kd_near>>

\* _apply_gain_scheduling: the (kp_scale, kd_scale) pair for a distance
GainScale(c, distance) ==
    LET g == PLANE_GAIN_SCHEDULING_CONFIG IN
    IF Lt(c.distance_far, distance)
    THEN <<g.kp_far, g.kd_far>>
    ELSE IF Lt(c.distance_near, distance) /\ Lt(c.distance_near, c.distance_far)
    THEN LET ratio == Div(Sub(distance, c.distance_near),
                          Sub(c.distance_far, c.distance_near))
         IN  <<Add(g.kp_near, Mul(Sub(g.kp_far, g.kp_near), ratio)),
               Add(g.kd_near, Mul(Sub(g.kd_far, g.kd_near), ratio))>>
    ELSE <<g.kp_near, g.kd_near>>

\* a scheduler call that leaves the live gains as they are
ApplyGainScheduling_Skip(c, pids, distance) == pids

\* _apply_gain_scheduling: the live kp and kd of both axis PIDs are overwritten
ApplyGainScheduling(c, pids, distance) ==
    LET s == GainScale(c, distance) IN
    [a \in DOMAIN pids |->
        [pids[a] EXCEPT !.kp = Mul(c.kp_base, s[1]), !.kd = Mul(c.kd_base, s[2])]]

\* a buffer that is never pruned
PruneBuffer_None(buffer, current_time) == buffer

\* "while buffer and buffer[0][0] < current_time - 1.0: buffer.pop(0)"
RECURSIVE PruneBuffer(_, _)
PruneBuffer(buffer, current_time) ==
    IF buffer # <<>> /\ Lt(Seconds(buffer[1][1]), Sub(Seconds(current_time), Num(1)))
    THEN PruneBuffer(Tail(buffer), current_time)
    ELSE buffer

\* a lookup without interpolation: the command of the first entry not before
\* target_time
GetDelayedCommand_Nearest(buffer, target_time) ==
    IF buffer = <<>> THEN Zero
    ELSE LET hits == {i \in 1..Len(buffer) : Le(target_time, Seconds(buffer[i][1]))}
         IN  IF hits = {} THEN buffer[Len(buffer)][2]
             ELSE buffer[CHOOSE k \in hits : \A j \in hits : k <= j][2]

\* _get_delayed_command: target_time in seconds, buffer timestamps in ticks
GetDelayedCommand(buffer, target_time) ==
    IF buffer = <<>> THEN Zero
    ELSE LET hits == {i \in 1..Len(buffer) : Le(target_time, Seconds(buffer[i][1]))}
         IN  IF hits = {} THEN buffer[Len(buffer)][2]
             ELSE LET i == CHOOSE k \in hits : \A j \in hits : k <= j
                  IN  IF i = 1 THEN buffer[1][2]
                      ELSE LET t1 == Seconds(buffer[i - 1][1])
                               cmd1 == buffer[i - 1][2]
                               t2 == Seconds(buffer[i][1])
                               cmd2 == buffer[i][2]
                               ratio == IF Lt(t1, t2)
                                        THEN Div(Sub(target_time, t1), Sub(t2, t1))
                                        ELSE Zero
                           IN  Add(cmd1, Mul(Sub(cmd2, cmd1), ratio))

\* a compensator that looks the delayed command up without storing the new one
ApplySmithPredictor_NoStore(c, command, buffer, current_time) ==
    LET delayed_time == Sub(Seconds(current_time), c.estimated_delay)
        delayed_command == GetDelayedCommand(buffer, delayed_time)
        compensation == Mul(Mul(delayed_command, c.response_gain), Num(150))
    IN  [buffer |-> buffer, command |-> Sub(command, compensation)]

\* a compensator that looks the delayed command up before it stores the new one
ApplySmithPredictor_LookupFirst(c, command, buffer, current_time) ==
    LET delayed_time == Sub(Seconds(current_time), c.estimated_delay)
        delayed_command == GetDelayedCommand(buffer, delayed_time)
        compensation == Mul(Mul(delayed_command, c.response_gain), Num(150))
    IN  [buffer |-> PruneBuffer(Append(buffer, <<current_time, command>>), current_time),
         command |-> Sub(command, compensation)]

\* _apply_smith_predictor: the buffer after the call and the compensated command
ApplySmithPredictor(c, command, buffer, current_time) ==
    LET buf == PruneBuffer(Append(buffer, <<current_time, command>>), current_time)
        delayed_time == Sub(Seconds(current_time), c.estimated_delay)
        delayed_command == GetDelayedCommand(buf, delayed_time)
        predicted_velocity == Mul(delayed_command, c.response_gain)
        compensation == Mul(predicted_velocity, Num(150))
    IN  [buffer |-> buf, command |-> Sub(command, compensation)]

\* an output limiter that lets the value through
PlaneLimit_None(limit, v) == v

\* "max(-self.output_limit, min(self.output_limit, ...))" at the end of compute()
PlaneLimit(limit, v) == Clamp(limit, v)

\* PlaneController.compute
PlaneCompute(c, limit, pids, bufs, target_x, target_y, current_x, current_y, current_time) ==
    LET error_x == Sub(target_x, current_x)
        error_y == Sub(target_y, current_y)
        distance == Sqrt(Add(Mul(error_x, error_x), Mul(error_y, error_y)))
        sched == IF c.enable_gain_scheduling
                 THEN ApplyGainScheduling(c, pids, distance) ELSE pids
        rx == PIDCompute(sched.x, error_x, current_time)
        ry == PIDCompute(sched.y, error_y, current_time)
        sx == IF c.enable_smith_predictor
              THEN ApplySmithPredictor(c, rx.output, bufs.x, current_time)
              ELSE [buffer |-> bufs.x, command |-> rx.output]
        sy == IF c.enable_smith_predictor
              THEN ApplySmithPredictor(c, ry.output, bufs.y, current_time)
              ELSE [buffer |-> bufs.y, command |-> ry.output]
        pitch_offset == PlaneLimit(limit, sx.command)
        y_output == PlaneLimit(limit, sy.command)
    IN  [pid |-> [x |-> rx.pid, y |-> ry.pid],
         delay_buffer |-> [x |-> sx.buffer, y |-> sy.buffer],
         roll_offset |-> Neg(y_output), pitch_offset |-> pitch_offset,
         yaw_offset |-> Zero,
         pid_components |-> [x |-> rx, y |-> ry]]

\* PlaneYawController.compute
PlaneYawCompute(pids, target_x, target_y, target_yaw, current_x, current_y, current_yaw, current_time) ==
    LET error_x == Sub(target_x, current_x)
        error_y == Sub(target_y, current_y)
        error_yaw == PlaneYaw_normalize_angle(Sub(target_yaw, current_yaw))
        rx == PIDCompute(pids.x, error_x, current_time)
        ry == PIDCompute(pids.y, error_y, current_time)
        ryaw == PIDCompute(pids.yaw, error_yaw, current_time)
    IN  [pid |-> [x |-> rx.pid, y |-> ry.pid, yaw |-> ryaw.pid],
         roll_offset |-> Neg(ry.output), pitch_offset |-> rx.output,
         yaw_offset |-> ryaw.output,
         pid_components |-> [x |-> rx, y |-> ry, yaw |-> ryaw]]

\* a heading-only controller that returns the PID output with its sign
YawOnlyCompute_NoFlip(pids, target_yaw, current_yaw, current_time) ==
    LET r == PIDCompute(pids.yaw, get_yaw_error(target_yaw, current_yaw), current_time)
    IN  [pid |-> [yaw |-> r.pid],
         roll_offset |-> Zero, pitch_offset |-> Zero,
         yaw_offset |-> r.output,
         pid_components |-> [yaw |-> r]]

\* YawOnlyController.compute
YawOnlyCompute(pids, target_yaw, current_yaw, current_time) ==
    LET error_yaw == get_yaw_error(target_yaw, current_yaw)
        r == PIDCompute(pids.yaw, error_yaw, current_time)
    IN  [pid |-> [yaw |-> r.pid],
         roll_offset |-> Zero, pitch_offset |-> Zero,
         yaw_offset |-> Neg(r.output),
         pid_components |-> [yaw |-> r]]

(***************************************************************************)
(* The driver loops: plane_main.py, yaw_main.py and main.py.               *)
(*                                                                         *)
(* One tick of a loop is several steps (read the pose, advance the arrival *)
(* machine, compute, call the sink, log and sleep); the clock, the pose    *)
(* receiver thread and a KeyboardInterrupt may act between any two steps.  *)
(* The pose carries the heading that quaternion_to_yaw extracts from it.   *)
(* DataLogger is an observer outside the control core: its calls appear    *)
(* only as steps that may raise.                                           *)
(***************************************************************************)
Drivers == {"plane", "yaw", "planeyaw"}

PLANE_AUTO_NEXT_WAYPOINT == FALSE
AUTO_NEXT_TARGET == TRUE
USE_RANDOM_ANGLES == TRUE
RANDOM_ANGLE_MIN_DIFF == 45
HoverCount == 5

\* PLANE_PID_RESET_ON_APPROACH: read by plane_main.py, defined in no file of src/
PLANE_PID_RESET_ON_APPROACH ==
    [enabled |-> TRUE, reset_mask |-> {"x", "y"},
     trigger_distance |-> Rat(5, 100), mute_duration |-> Rat(5, 10)]

\* PlaneController.selective_reset: called by plane_main.py, defined in no file
\* of src/; it resets the Axis PID state of the axes the mask selects
SelectiveReset(pids, mask) ==
    [a \in DOMAIN pids |-> IF a \in mask THEN PIDReset(pids[a]) ELSE pids[a]]

\* the masks a driver is run with: both axes, and for the plane driver the X
\* axis alone
ResetMasks(d) ==
    IF d = "plane" THEN {PLANE_PID_RESET_ON_APPROACH.reset_mask, {"x"}}
    ELSE {PLANE_PID_RESET_ON_APPROACH.reset_mask}

\* the auto-advance flag of a driver: the shipped value (main.py always waits
\* for Enter), and for the heading-only driver the other value too
AutoModes(d) ==
    IF d = "planeyaw" THEN {FALSE}
    ELSE IF d = "plane" THEN {PLANE_AUTO_NEXT_WAYPOINT}
    ELSE {AUTO_NEXT_TARGET, ~AUTO_NEXT_TARGET}

\* the output limits a driver is run with: the shipped ones, and for the
\* heading-only driver one above the 660 that keeps 1024 +/- limit in range
OutputLimits(d) ==
    IF d = "yaw" THEN {MAX_YAW_STICK_OUTPUT, OverLimit} ELSE {MAX_STICK_OUTPUT}

\* the controller each main() constructs
NewController(d, limit) ==
    LET xy == PIDController(Num(KP_XY), Num(KI_XY), Num(KD_XY), Some(Num(limit)), None)
    IN  IF d = "plane" THEN [x |-> xy, y |-> xy]
        ELSE IF d = "planeyaw"
        THEN [x |-> xy, y |-> xy,
              yaw |-> PIDController(Num(KP_YAW), Num(KI_YAW), Num(KD_YAW),
                                    Some(Num(limit)), None)]
        ELSE [yaw |-> PIDController(Num(KP_YAW), Num(KI_YAW), Num(KD_YAW),
                                    Some(Num(limit)),
                                    Some(Num(YAW_I_ACTIVATION_ERROR)))]

NoBuffers == [x |-> <<>>, y |-> <<>>]

\* a reset that leaves the PIDs as they are
ControllerReset_Keep(pids) == pids

\* a reset that reaches the X axis only
ControllerReset_OnlyX(pids) ==
    [a \in DOMAIN pids |-> IF a = "x" THEN PIDReset(pids[a]) ELSE pids[a]]

\* controller.reset() of the three controllers: every PID is reset, and the
\* plane controller clears both delay buffers (live kp and kd are kept)
ControllerReset(pids) == [a \in DOMAIN pids |-> PIDReset(pids[a])]

Pose(x, y, yaw) == [x |-> x, y |-> y, yaw |-> yaw]
NoTarget == Pose(Zero, Zero, Zero)

NoCall == [op |-> "none", error |-> Zero, time |-> 0, pre |-> None, ret |-> None, n |-> 0]

\* the poses the receiver thread may deliver
Poses(d) ==
    IF d = "plane"
    THEN { Pose(Rat(3, 100), Zero, Zero), Pose(Rat(45, 100), Rat(60, 100), Zero) }
    ELSE IF d = "planeyaw"
    THEN { Pose(Zero, Rat(8, 100), Num(1)), Pose(Zero, Rat(8, 100), Num(30)),
           Pose(Rat(45, 100), Rat(60, 100), Num(1)) }
    ELSE { Pose(Zero, Zero, Num(1)), Pose(Zero, Zero, Num(91)) }

\* the angles generate_random_angle may draw
RandomAngles == {Num(0), Num(90)}

FirstTarget(d) ==
    IF d = "yaw"
    THEN Pose(Zero, Zero, IF USE_RANDOM_ANGLES THEN Num(0) ELSE TARGET_YAWS[1])
    ELSE Pose(WAYPOINTS[1][1], WAYPOINTS[1][2], Zero)

\* next_index / next_waypoint / next_target computed when arrival is declared
NextTargets(d, index, tgt) ==
    IF d = "yaw"
    THEN IF USE_RANDOM_ANGLES
         THEN { <<index + 1, Pose(Zero, Zero, a)>> : a \in
                  {b \in RandomAngles :
                      Le(Num(RANDOM_ANGLE_MIN_DIFF), Abs(get_yaw_error(b, tgt.yaw)))} }
         ELSE LET n == (index + 1) % Len(TARGET_YAWS)
              IN  { <<n, Pose(Zero, Zero, TARGET_YAWS[n + 1])>> }
    ELSE LET n == (index + 1) % Len(WAYPOINTS)
         IN  { <<n, Pose(WAYPOINTS[n + 1][1], WAYPOINTS[n + 1][2], Zero)>> }

Distance(s, tgt) == get_distance(tgt.x, tgt.y, s.x, s.y)

\* the tolerance test of each driver's arrival check
WithinTolerance(d, s, tgt) ==
    IF d = "plane" THEN Lt(Distance(s, tgt), TOLERANCE_XY)
    ELSE IF d = "yaw" THEN Lt(Abs(get_yaw_error(tgt.yaw, s.yaw)), TOLERANCE_YAW)
    ELSE /\ Lt(Distance(s, tgt), TOLERANCE_XY)
         /\ Lt(Abs(PlaneYaw_normalize_angle(Sub(tgt.yaw, s.yaw))), TOLERANCE_YAW)

StableTime(d) ==
    IF d = "plane" THEN PLANE_ARRIVAL_STABLE_TIME
    ELSE IF d = "yaw" THEN YAW_ARRIVAL_STABLE_TIME
    ELSE ARRIVAL_STABLE_TIME

\* a stability test that accepts any run, however short
StableEnough_Eager(d, since, now) == Le(Zero, Seconds(now - since))

\* "stable_duration >= ..._ARRIVAL_STABLE_TIME" with stable_duration = now - since
StableEnough(d, since, now) == Le(StableTime(d), Seconds(now - since))

\* a timer that survives an excursion out of tolerance
NextInToleranceSince_Keep(since, within, now) ==
    IF within /\ since = None THEN Some(now) ELSE since

\* in_tolerance_since after the tolerance test of a tick that does not arrive
NextInToleranceSince(since, within, now) ==
    IF within THEN (IF since = None THEN Some(now) ELSE since) ELSE None

\* a trigger that ignores pid_has_reset
ResetTriggered_Again(has_reset, distance) ==
    /\ PLANE_PID_RESET_ON_APPROACH.enabled
    /\ Lt(distance, PLANE_PID_RESET_ON_APPROACH.trigger_distance)

\* "if pid_reset_enabled and not pid_has_reset: ... if distance < trigger_distance"
ResetTriggered(has_reset, distance) ==
    /\ PLANE_PID_RESET_ON_APPROACH.enabled
    /\ ~has_reset
    /\ Lt(distance, PLANE_PID_RESET_ON_APPROACH.trigger_distance)

\* "if current_time < pid_mute_until"
Muted(now, mute_until) == Lt(Seconds(now), mute_until)

\* int(NEUTRAL + offset)
StickValue(offset) == Trunc(Add(Num(NEUTRAL), offset))

Centered == [roll |-> NEUTRAL, pitch |-> NEUTRAL, yaw |-> NEUTRAL]

\* send_stick_control's range check of one channel
InRange(v) == 364 <= v /\ v <= 1684

\* the sink after n centered commands were published
SendCentered(s, n) ==
    [args |-> Some(Centered),
     tail_centered |-> IF s.tail_centered + n > HoverCount THEN HoverCount
                       ELSE s.tail_centered + n]

NoSink == [args |-> None, tail_centered |-> 0]

(***************************************************************************)
(* The objects of the SDK after construction: MQTTClient, HeartbeatKeeper  *)
(* and the locals of setup_drc_connection.                                 *)
(***************************************************************************)
\* an empty dict
EmptyDict == [k \in {} |-> 0]
\* d[k] = v
Put(d, k, v) == [x \in DOMAIN d \cup {k} |-> IF x = k THEN v ELSE d[x]]
\* d without the key k: what is left after d.pop(k, None)
Pop(d, k) == [x \in DOMAIN d \ {k} |-> d[x]]

\* Future(): nothing set yet; sets counts the calls of set_result and
\* set_exception made on it
NewFuture == [state |-> "PENDING", result |-> None, exception |-> None, sets |-> 0]

\* a payload that has no key at all
NoMessage == [method |-> "", tid |-> None, info |-> [kind |-> "absent", code |-> None, message |-> None], data |-> None]

\* the network thread outside _on_message
IdleRx == [pc |-> "idle", payload |-> NoMessage, future |-> None, caught |-> None]

NoLog ==
    [messages |-> 0,       \* messages handed to _on_message
     cleanups |-> 0,       \* calls of cleanup_request
     replied |-> {},       \* tids that a handled message carried
     cleaned |-> {},       \* tids that cleanup_request was called with
     returned |-> {},      \* tids whose publish() has returned
     left |-> {},          \* tids that were pending when their publish() returned
     early |-> {},         \* tids a message carried before their publish() returned
     cleanup |-> None,     \* the tid of the last cleanup_request
     first |-> None,       \* the first non-null height an osd_info_push carried
     relative |-> None]    \* what get_relative_height() returned last

\* MQTTClient.__init__
NoMqtt ==
    /\ pending_requests = EmptyDict
    /\ futures = EmptyDict
    /\ osd_data = [height |-> None]
    /\ takeoff_height = None
    /\ broker = {}
    /\ callers = [c \in {} |-> 0]
    /\ receiver = IdleRx
    /\ mlog = NoLog

\* HeartbeatKeeper.__init__ but for last_seq; no thread was created yet
NoThread == [created |-> 0, alive |-> FALSE, pc |-> "none", next_tick |-> 0, now |-> 0, wake |-> 0]
NoHeartbeat ==
    /\ running = FALSE
    /\ thread = NoThread
    /\ perf = 0
    /\ heartbeats = << >>
    /\ keeper = [pc |-> "idle", op |-> "none", stops |-> 0, stopped_at |-> 0, sent_count |-> 0, failed_count |-> 0]

\* setup_drc_connection before its first statement
NoSetup == [pc |-> "none", wait_for_user |-> FALSE, connected |-> FALSE, heartbeat |-> FALSE, beats |-> 0, steps |-> << >>, results |-> << >>, failed |-> None, exc |-> None, raised |-> None]

\* no SDK object is in use
NoSdk ==
    /\ variant = "pythonSDK"
    /\ NoMqtt
    /\ NoHeartbeat
    /\ last_seq = 0
    /\ setup = NoSetup

\* history of the run; all but cause and tick are about the current target
NoHist ==
    [arrivals |-> 0,       \* times the current target was declared ARRIVED
     resets |-> 0,         \* times reset-on-approach fired
     dips |-> 0,           \* times the distance went from >= to < trigger_distance (at most 2 counted)
     below |-> FALSE,      \* the last tick saw the distance below trigger_distance
     run_start |-> None,   \* tick time at which the current unbroken run of in-tolerance ticks began
     excursions |-> 0,     \* times a running stability timer was discarded (at most 1 counted)
     fresh |-> FALSE,      \* the target was just activated and no tick has run on it yet
     due |-> FALSE,        \* at this tick's arrival check the run had lasted the stable time
     tick |-> "none",      \* the current tick so far: "pose", "muted", "computed"
     called |-> {},        \* controller methods called in the current tick
     dirty |-> FALSE,      \* a step of the current tick changed PID state or delay buffers
     waited |-> FALSE,     \* the last tick that sent a command went on to the sleep at its end
     gap |-> FALSE,        \* the tick before this one had feedback and skipped compute()
     dt |-> << >>,         \* the dt of each PID in the compute() call of the current tick
     cause |-> "none"]     \* why the loop ended

NewTargetHist(h) == [NoHist EXCEPT !.fresh = TRUE, !.cause = h.cause]

Init ==
    /\ \E d \in Drivers :
          /\ driver = d
          /\ auto \in AutoModes(d)
          /\ output_limit \in OutputLimits(d)
          /\ target = FirstTarget(d)
          /\ pid = NewController(d, output_limit)
          /\ reset_mask \in ResetMasks(d)
    /\ config = PlaneControllerConfig
    /\ pc = "top"
    /\ NoSdk
    /\ clock = 0
    /\ pose = None
    /\ snap = None
    /\ target_index = 0
    /\ loop_count = 0
    /\ reached = FALSE
    /\ in_tolerance_since = None
    /\ pid_has_reset = FALSE
    /\ pid_mute_until = Zero
    /\ delay_buffer = NoBuffers
    /\ cmd = None
    /\ sink = NoSink
    /\ hist = NoHist
    /\ call = NoCall

InLoop == pc \in {"top", "check", "arrival", "burst", "arrived_reset", "switch",
                  "input", "control", "emit", "log"}

\* time passes; the steps at "check", "arrival" and "control" are the ones that
\* read the clock, so time passing anywhere else in the loop is the same as
\* time passing before the next of them
Advance ==
    /\ pc \in {"check", "arrival", "control"}
    /\ clock < MaxTime
    /\ clock' = clock + 1
    /\ UNCHANGED <<cfgVars, pc, pose, loopVars, arrivalVars, ctrlVars, cmd, sink, hist, call>>

\* a receiver that writes the fields of a message into the slot one by one,
\* the first of them here
VrpnReceive_Fieldwise ==
    /\ InLoop
    /\ \E p \in Poses(driver) :
          /\ pose' = IF pose = None THEN Some(p) ELSE Some([pose[1] EXCEPT !.x = p.x])
          /\ pose' # pose
    /\ UNCHANGED <<cfgVars, pc, clock, loopVars, arrivalVars, ctrlVars, cmd, sink, hist, call>>

\* VRPNClient._receive_loop, the receiver thread: "with self._lock: self._pose
\* = data" replaces the slot by the decoded message, at any point of a tick
VrpnReceive ==
    /\ InLoop
    /\ \E p \in Poses(driver) : pose' = Some(p) /\ pose' # pose
    /\ UNCHANGED <<cfgVars, pc, clock, loopVars, arrivalVars, ctrlVars, cmd, sink, hist, call>>

\* a loop that runs the tick on a zero pose when no pose has arrived
ReadPose_Origin ==
    /\ pc = "top"
    /\ loop_count' = IF driver = "plane" THEN (loop_count + 1) % 2 ELSE loop_count
    /\ pc' = IF driver = "plane" THEN "check" ELSE "arrival"
    /\ snap' = IF pose = None THEN Some(Pose(Zero, Zero, Zero)) ELSE pose
    /\ hist' = [hist EXCEPT !.tick = "pose", !.fresh = FALSE, !.due = FALSE,
                            !.called = {}, !.dirty = FALSE]
    /\ UNCHANGED <<cfgVars, clock, pose, target_index, target, reached, arrivalVars,
                   ctrlVars, cmd, sink, call>>

\* top of the loop: loop_count += 1, read the pose; without a pose, sleep and continue
ReadPose ==
    /\ pc = "top"
    /\ loop_count' = IF driver = "plane" THEN (loop_count + 1) % 2 ELSE loop_count
    /\ IF pose = None
       THEN /\ pc' = "top"
            /\ snap' = snap
            /\ hist' = hist
       ELSE /\ pc' = IF driver = "plane" THEN "check" ELSE "arrival"
            /\ snap' = pose
            /\ hist' = [hist EXCEPT !.tick = "pose", !.fresh = FALSE, !.due = FALSE,
                                    !.called = {}, !.dirty = FALSE]
    /\ UNCHANGED <<cfgVars, clock, pose, target_index, target, reached, arrivalVars,
                   ctrlVars, cmd, sink, call>>

\* a reset-on-approach that also discards the stability timer
PlaneResetOnApproach_Restart ==
    /\ pc = "check"
    /\ LET distance == Distance(snap[1], target)
           isBelow == Lt(distance, PLANE_PID_RESET_ON_APPROACH.trigger_distance)
           h == [hist EXCEPT !.below = isBelow,
                             !.dips = IF isBelow /\ ~hist.below /\ hist.dips < 2
                                      THEN hist.dips + 1 ELSE hist.dips]
       IN  IF ~reached /\ ResetTriggered(pid_has_reset, distance)
           THEN /\ pid' = SelectiveReset(pid, reset_mask)
                /\ pid_mute_until' = Add(Seconds(clock), PLANE_PID_RESET_ON_APPROACH.mute_duration)
                /\ pid_has_reset' = TRUE
                /\ in_tolerance_since' = None
                /\ hist' = [h EXCEPT !.resets = hist.resets + 1,
                                     !.called = hist.called \cup {"selective_reset"},
                                     !.dirty = (pid' # pid)]
           ELSE /\ UNCHANGED <<pid, pid_mute_until, pid_has_reset, in_tolerance_since>>
                /\ hist' = h
    /\ pc' = "arrival"
    /\ UNCHANGED <<cfgVars, clock, pose, loopVars, delay_buffer,
                   cmd, sink, call>>

\* plane_main.py: reset-on-approach
PlaneResetOnApproach ==
    /\ pc = "check"
    /\ LET distance == Distance(snap[1], target)
           isBelow == Lt(distance, PLANE_PID_RESET_ON_APPROACH.trigger_distance)
           h == [hist EXCEPT !.below = isBelow,
                             !.dips = IF isBelow /\ ~hist.below /\ hist.dips < 2
                                      THEN hist.dips + 1 ELSE hist.dips]
       IN  IF ~reached /\ ResetTriggered(pid_has_reset, distance)
           THEN /\ pid' = SelectiveReset(pid, reset_mask)
                /\ pid_mute_until' = Add(Seconds(clock), PLANE_PID_RESET_ON_APPROACH.mute_duration)
                /\ pid_has_reset' = TRUE
                /\ hist' = [h EXCEPT !.resets = hist.resets + 1,
                                     !.called = hist.called \cup {"selective_reset"},
                                     !.dirty = (pid' # pid)]
           ELSE /\ UNCHANGED <<pid, pid_mute_until, pid_has_reset>>
                /\ hist' = h
    /\ pc' = "arrival"
    /\ UNCHANGED <<cfgVars, clock, pose, loopVars, in_tolerance_since, delay_buffer,
                   cmd, sink, call>>

\* the arrival check of the three loops ("if not reached: ...")
Arrival ==
    /\ pc = "arrival"
    /\ IF reached
       THEN /\ pc' = IF driver = "plane" THEN "log" ELSE "control"
            /\ UNCHANGED <<in_tolerance_since, hist>>
       ELSE LET within == WithinTolerance(driver, snap[1], target)
                arrive == /\ within
                          /\ in_tolerance_since # None
                          /\ StableEnough(driver, in_tolerance_since[1], clock)
                since == NextInToleranceSince(in_tolerance_since, within, clock)
                h == [hist EXCEPT
                        !.run_start = IF ~within THEN None
                                      ELSE IF hist.run_start = None THEN Some(clock)
                                      ELSE hist.run_start,
                        !.due = /\ within
                                /\ hist.run_start # None
                                /\ Le(StableTime(driver), Seconds(clock - hist.run_start[1])),
                        !.excursions = IF ~within /\ in_tolerance_since # None
                                       THEN 1 ELSE hist.excursions]
            IN  IF arrive
                THEN /\ pc' = "burst"
                     /\ in_tolerance_since' = in_tolerance_since
                     /\ hist' = [h EXCEPT !.arrivals = hist.arrivals + 1]
                ELSE /\ pc' = "control"
                     /\ in_tolerance_since' = since
                     /\ hist' = h
    /\ UNCHANGED <<cfgVars, clock, pose, loopVars, pid_has_reset, pid_mute_until,
                   ctrlVars, cmd, sink, call>>

\* "for _ in range(5): send_stick_control(mqtt_client)" after arrival
Burst ==
    /\ pc = "burst"
    /\ sink' = SendCentered(sink, HoverCount)
    /\ pc' = "arrived_reset"
    /\ UNCHANGED <<cfgVars, clock, pose, loopVars, arrivalVars, ctrlVars, cmd, hist, call>>

\* "controller.reset(); reached = True; in_tolerance_since = None"
ArrivedReset ==
    /\ pc = "arrived_reset"
    /\ pid' = ControllerReset(pid)
    /\ delay_buffer' = NoBuffers
    /\ reached' = TRUE
    /\ in_tolerance_since' = None
    /\ pc' = IF auto THEN "switch" ELSE "input"
    /\ hist' = [hist EXCEPT !.called = hist.called \cup {"reset"},
                            !.dirty = hist.dirty \/ pid' # pid \/ delay_buffer' # delay_buffer]
    /\ UNCHANGED <<cfgVars, clock, pose, snap, target_index, target, loop_count,
                   pid_has_reset, pid_mute_until, cmd, sink, call>>

\* the next target becomes active: directly (auto mode) or when input() returns
SwitchTarget ==
    /\ pc \in {"switch", "input"}
    /\ \E n \in NextTargets(driver, target_index, target) :
          /\ target_index' = n[1]
          /\ target' = n[2]
    /\ reached' = FALSE
    /\ loop_count' = 0
    /\ IF driver = "plane"
       THEN pid_has_reset' = FALSE /\ pid_mute_until' = Zero
       ELSE UNCHANGED <<pid_has_reset, pid_mute_until>>
    /\ hist' = NewTargetHist(hist)
    /\ pc' = "top"
    /\ UNCHANGED <<cfgVars, clock, pose, snap, in_tolerance_since, ctrlVars, cmd, sink, call>>

\* controller.compute() of the driver's controller, as the loop calls it
ControllerCompute(c, d, limit, pids, bufs, tgt, s, now) ==
    IF d = "plane"
    THEN PlaneCompute(c, Num(limit), pids, bufs,
                      tgt.x, tgt.y, s.x, s.y, now)
    ELSE IF d = "planeyaw"
    THEN [delay_buffer |-> bufs] @@
         PlaneYawCompute(pids, tgt.x, tgt.y, tgt.yaw, s.x, s.y, s.yaw, now)
    ELSE [delay_buffer |-> bufs] @@ YawOnlyCompute(pids, tgt.yaw, s.yaw, now)

\* yaw_main.py: "if YAW_DEADZONE > 0 and abs(yaw_offset) < YAW_DEADZONE: yaw_offset = 0"
Deadzone(offset) ==
    IF YAW_DEADZONE > 0 /\ Lt(Abs(offset), Num(YAW_DEADZONE)) THEN Zero ELSE offset

\* the stick values a driver passes to the sink for the controller's offsets
StickCommand(d, r) ==
    IF d = "plane"
    THEN [roll |-> StickValue(r.roll_offset), pitch |-> StickValue(r.pitch_offset),
          yaw |-> NEUTRAL]
    ELSE IF d = "planeyaw"
    THEN [roll |-> StickValue(r.roll_offset), pitch |-> StickValue(r.pitch_offset),
          yaw |-> StickValue(r.yaw_offset)]
    ELSE [roll |-> NEUTRAL, pitch |-> NEUTRAL, yaw |-> StickValue(Deadzone(r.yaw_offset))]

\* a mute window that only suppresses the output: compute() still runs
Control_Suppress ==
    /\ pc = "control"
    /\ \E r \in {ControllerCompute(config, driver, output_limit, pid, delay_buffer,
                                    target, snap[1], clock)},
          muted \in {driver = "plane" /\ Muted(clock, pid_mute_until)} :
           /\ Len(r.delay_buffer.x) <= MaxBuffer
           /\ pid' = r.pid
           /\ delay_buffer' = r.delay_buffer
           /\ cmd' = Some(IF muted THEN Centered ELSE StickCommand(driver, r))
           /\ hist' = [hist EXCEPT
                         !.tick = IF muted THEN "muted" ELSE "computed",
                         !.called = hist.called \cup {"compute"},
                         !.dirty = \/ hist.dirty
                                   \/ r.pid # pid
                                   \/ r.delay_buffer # delay_buffer]
    /\ pc' = "emit"
    /\ UNCHANGED <<cfgVars, clock, pose, loopVars, arrivalVars, sink, call>>

\* "current_time = time.time()", then the mute branch or controller.compute()
Control ==
    /\ pc = "control"
    /\ IF driver = "plane" /\ Muted(clock, pid_mute_until)
       THEN /\ cmd' = Some(Centered)
            /\ hist' = [hist EXCEPT !.tick = "muted", !.gap = TRUE]
            /\ UNCHANGED ctrlVars
       ELSE /\ \E r \in {ControllerCompute(config, driver, output_limit, pid, delay_buffer,
                                              target, snap[1], clock)} :
                   /\ Len(r.delay_buffer.x) <= MaxBuffer
                   /\ pid' = r.pid
                   /\ delay_buffer' = r.delay_buffer
                   /\ cmd' = Some(StickCommand(driver, r))
                   /\ hist' = [hist EXCEPT
                                 !.tick = "computed",
                                 !.dt = [a \in DOMAIN r.pid_components |->
                                            r.pid_components[a].dt],
                                 !.called = hist.called \cup {"compute"},
                                 !.dirty = \/ hist.dirty
                                           \/ r.pid # pid
                                           \/ r.delay_buffer # delay_buffer]
    /\ pc' = "emit"
    /\ UNCHANGED <<cfgVars, clock, pose, loopVars, arrivalVars, sink, call>>

\* a way out that publishes nothing
Finally_NoHover(cause) ==
    /\ sink' = sink
    /\ pc' = "done"
    /\ hist' = [NoHist EXCEPT !.cause = cause]
    /\ snap' = None
    /\ target_index' = 0
    /\ target' = FirstTarget(driver)
    /\ loop_count' = 0
    /\ reached' = FALSE
    /\ in_tolerance_since' = None
    /\ pid_has_reset' = FALSE
    /\ pid_mute_until' = Zero
    /\ pid' = NewController(driver, output_limit)
    /\ delay_buffer' = NoBuffers
    /\ UNCHANGED <<cfgVars, clock, pose, call>>

\* the way out of the loop: the except clause, then "finally: for _ in
\* range(5): send_stick_control(mqtt_client)", then main() returns and its
\* frame (controller, target, arrival state) is gone
Finally(cause) ==
    /\ sink' = SendCentered(sink, HoverCount)
    /\ pc' = "done"
    /\ hist' = [NoHist EXCEPT !.cause = cause]
    /\ snap' = None
    /\ target_index' = 0
    /\ target' = FirstTarget(driver)
    /\ loop_count' = 0
    /\ reached' = FALSE
    /\ in_tolerance_since' = None
    /\ pid_has_reset' = FALSE
    /\ pid_mute_until' = Zero
    /\ pid' = NewController(driver, output_limit)
    /\ delay_buffer' = NoBuffers
    /\ UNCHANGED <<cfgVars, clock, pose, call>>

\* send_stick_control: ValueError for a channel outside [364, 1684], else publish
Emit ==
    /\ pc = "emit"
    /\ LET c == cmd[1] IN
       IF InRange(c.roll) /\ InRange(c.pitch) /\ InRange(c.yaw)
       THEN /\ sink' = IF c = Centered THEN SendCentered(sink, 1)
                       ELSE [args |-> Some(c), tail_centered |-> 0]
            /\ pc' = "log"
            /\ UNCHANGED <<cfgVars, clock, pose, loopVars, arrivalVars, ctrlVars,
                           hist, call>>
       ELSE Finally("rejected")
    /\ cmd' = None

\* plane_main.py logs and sleeps on every second loop_count only
Logging == driver = "plane" => loop_count = 0

\* logger.log(...), then sleep for the rest of the interval; in plane_main.py
\* both are inside "if loop_count % 2 == 0"
LogSleep ==
    /\ pc = "log"
    /\ pc' = "top"
    /\ hist' = [hist EXCEPT !.tick = "none", !.due = FALSE, !.called = {}, !.dirty = FALSE,
                            !.waited = Logging, !.gap = (hist.tick = "muted"),
                            !.dt = << >>]
    /\ UNCHANGED <<cfgVars, clock, pose, loopVars, arrivalVars, ctrlVars, cmd, sink, call>>

\* an exception raised inside a tick by the logging call: "except Exception"
TickException ==
    /\ pc = "log"
    /\ Logging
    /\ cmd' = cmd
    /\ Finally("exception")

\* Ctrl+C: "except KeyboardInterrupt" of the loop, or "break" out of input()
KeyboardInterrupt ==
    /\ InLoop
    /\ cmd' = None
    /\ Finally(IF pc = "input" THEN "input_interrupt" ELSE "interrupt")

\* a step of the main thread, or of the clock
DriverStep ==
    \/ Advance
    \/ ReadPose
    \/ PlaneResetOnApproach
    \/ Arrival
    \/ Burst
    \/ ArrivedReset
    \/ SwitchTarget
    \/ Control
    \/ Emit
    \/ LogSleep
    \/ TickException
    \/ KeyboardInterrupt

Next == VrpnReceive \/ DriverStep

Spec == Init /\ [][Next]_vars

(***************************************************************************)
(* plane_main.py on an approach: the feedback source delivers poses inside *)
(* the tolerance only, outside and inside trigger_distance.                *)
(***************************************************************************)
ApproachPoses == { Pose(Rat(8, 100), Zero, Zero), Pose(Rat(3, 100), Zero, Zero) }

InitApproach ==
    /\ Init
    /\ driver = "plane"
    /\ reset_mask = PLANE_PID_RESET_ON_APPROACH.reset_mask

\* VRPNClient._receive_loop on the approach
VrpnApproach ==
    /\ InLoop
    /\ \E p \in ApproachPoses : pose' = Some(p) /\ pose' # pose
    /\ UNCHANGED <<cfgVars, pc, clock, loopVars, arrivalVars, ctrlVars, cmd, sink, hist, call>>

NextApproach == VrpnApproach \/ DriverStep

SpecApproach == InitApproach /\ [][NextApproach]_vars

(***************************************************************************)
(* A single PIDController driven by arbitrary compute() and reset() calls. *)
(* time.time() is the wall clock, so timestamps may repeat or decrease.    *)
(***************************************************************************)
PidErrors == {Num(-90), Num(-10), Num(0), Num(10), Num(90)}
\* <<ki, output_limit, i_activation_threshold>>: the yaw PID of yaw_main.py, a PID
\* without activation window (as the plane axes have), the constructor's
\* defaults (no limit, no window), a PID without integral gain, and the
\* integral gain and limit of the plane axes (500 / 30 is within reach of one call)
PidConfigs ==
    { <<Num(KI_YAW), Some(Num(MAX_YAW_STICK_OUTPUT)), Some(Num(YAW_I_ACTIVATION_ERROR))>>,
      <<Num(KI_YAW), Some(Num(MAX_YAW_STICK_OUTPUT)), None>>,
      <<Num(KI_XY), Some(Num(MAX_STICK_OUTPUT)), None>>,
      <<Num(KI_YAW), None, None>>,
      <<Zero, Some(Num(MAX_YAW_STICK_OUTPUT)), Some(Num(YAW_I_ACTIVATION_ERROR))>> }


InitPID ==
    /\ driver = "pid"
    /\ auto = FALSE
    /\ output_limit = 0
    /\ config = PlaneControllerConfig
    /\ pc = "pid"
    /\ reset_mask = PLANE_PID_RESET_ON_APPROACH.reset_mask
    /\ NoSdk
    /\ clock = 0
    /\ pose = None
    /\ snap = None
    /\ target_index = 0
    /\ target = NoTarget
    /\ loop_count = 0
    /\ reached = FALSE
    /\ in_tolerance_since = None
    /\ pid_has_reset = FALSE
    /\ pid_mute_until = Zero
    /\ \E c \in PidConfigs :
          pid = [yaw |-> PIDController(Num(KP_YAW), c[1], Num(KD_YAW), c[2], c[3])]
    /\ delay_buffer = NoBuffers
    /\ cmd = None
    /\ sink = NoSink
    /\ hist = NoHist
    /\ call = NoCall

PidCallCompute ==
    /\ call.n < MaxCalls
    /\ \E error \in PidErrors, current_time \in 0..MaxStamp :
          LET r == PIDCompute(pid.yaw, error, current_time) IN
          /\ pid' = [pid EXCEPT !.yaw = r.pid]
          /\ call' = [op |-> "compute", error |-> error, time |-> current_time,
                      pre |-> Some(pid.yaw), ret |-> Some(r), n |-> call.n + 1]
    /\ UNCHANGED <<cfgVars, pc, clock, pose, loopVars, arrivalVars, delay_buffer, cmd, sink, hist>>

PidCallReset ==
    /\ call.n < MaxCalls
    /\ pid' = [pid EXCEPT !.yaw = PIDReset(pid.yaw)]
    /\ call' = [op |-> "reset", error |-> Zero, time |-> 0,
                pre |-> Some(pid.yaw), ret |-> None, n |-> call.n + 1]
    /\ UNCHANGED <<cfgVars, pc, clock, pose, loopVars, arrivalVars, delay_buffer, cmd, sink, hist>>

NextPID == PidCallCompute \/ PidCallReset

SpecPID == InitPID /\ [][NextPID]_vars

(***************************************************************************)
(* A single PIDController without activation window, called with one       *)
(* constant positive error at strictly increasing timestamps.              *)
(***************************************************************************)
RampErrors == {Num(10), Num(90)}
\* <<ki, output_limit>>: the plane axes, the yaw PID, a PID without limit and
\* a PID without integral gain
RampConfigs ==
    { <<Num(KI_XY), Some(Num(MAX_STICK_OUTPUT))>>,
      <<Num(KI_YAW), Some(Num(MAX_YAW_STICK_OUTPUT))>>,
      <<Num(KI_YAW), None>>,
      <<Zero, Some(Num(MAX_YAW_STICK_OUTPUT))>> }

InitRamp ==
    /\ driver = "pid"
    /\ auto = FALSE
    /\ output_limit = 0
    /\ config = PlaneControllerConfig
    /\ pc = "ramp"
    /\ reset_mask = PLANE_PID_RESET_ON_APPROACH.reset_mask
    /\ NoSdk
    /\ clock = 0
    /\ pose = None
    /\ snap = None
    /\ target_index = 0
    /\ target = NoTarget
    /\ loop_count = 0
    /\ reached = FALSE
    /\ in_tolerance_since = None
    /\ pid_has_reset = FALSE
    /\ pid_mute_until = Zero
    /\ \E c \in RampConfigs :
          pid = [yaw |-> PIDController(Num(KP_YAW), c[1], Num(KD_YAW), c[2], None)]
    /\ delay_buffer = NoBuffers
    /\ cmd = None
    /\ sink = NoSink
    /\ hist = NoHist
    /\ \E e \in RampErrors : call = [NoCall EXCEPT !.error = e]

\* compute(error, current_time) with the error of the run and a later timestamp
RampCompute ==
    /\ \E current_time \in 0..MaxRampStamp :
          /\ pid.yaw.last_time # None => pid.yaw.last_time[1] < current_time
          /\ \E r \in {PIDCompute(pid.yaw, call.error, current_time)} :
                /\ pid' = [pid EXCEPT !.yaw = r.pid]
                /\ call' = [op |-> "compute", error |-> call.error, time |-> current_time,
                            pre |-> Some(pid.yaw), ret |-> Some(r), n |-> call.n + 1]
    /\ UNCHANGED <<cfgVars, pc, clock, pose, loopVars, arrivalVars, delay_buffer, cmd, sink, hist>>

NextRamp == RampCompute

SpecRamp == InitRamp /\ [][NextRamp]_vars

(***************************************************************************)
(* A composite controller (PlaneController, PlaneYawController or          *)
(* YawOnlyController) driven by arbitrary compute() and reset() calls.     *)
(***************************************************************************)
\* the target every call is made with
CtlTarget == Pose(Zero, Zero, Zero)
\* the current states the calls are made with; for the plane controller:
\* beyond distance_far on either side, at the midpoint of the band, and inside
\* distance_near
CtlPoses(d) ==
    IF d = "yaw"
    THEN { Pose(Zero, Zero, Num(91)), Pose(Zero, Zero, Num(-100)) }
    ELSE IF d = "planeyaw"
    THEN { Pose(Num(3), Zero, Num(91)), Pose(Rat(-3, 100), Rat(4, 100), Num(-100)) }
    ELSE { Pose(Num(3), Zero, Zero), Pose(Num(-3), Zero, Zero),
           Pose(Rat(45, 100), Rat(60, 100), Zero), Pose(Rat(3, 100), Rat(4, 100), Zero) }

InitCtl ==
    /\ \E d \in Drivers :
          /\ driver = d
          /\ output_limit \in OutputLimits(d)
          /\ pid = NewController(d, output_limit)
    /\ auto = FALSE
    /\ config = PlaneControllerConfig
    /\ pc = "ctl"
    /\ reset_mask = PLANE_PID_RESET_ON_APPROACH.reset_mask
    /\ NoSdk
    /\ clock = 0
    /\ pose = None
    /\ snap = None
    /\ target_index = 0
    /\ target = NoTarget
    /\ loop_count = 0
    /\ reached = FALSE
    /\ in_tolerance_since = None
    /\ pid_has_reset = FALSE
    /\ pid_mute_until = Zero
    /\ delay_buffer = NoBuffers
    /\ cmd = None
    /\ sink = NoSink
    /\ hist = NoHist
    /\ call = [op |-> "none", n |-> 0]

\* controller.compute(target..., current..., current_time)
CtlCompute ==
    /\ call.n < MaxCalls
    /\ \E s \in CtlPoses(driver), current_time \in 0..MaxStamp :
          \E r \in {ControllerCompute(config, driver, output_limit, pid, delay_buffer,
                                       CtlTarget, s, current_time)} :
             /\ pid' = r.pid
             /\ delay_buffer' = r.delay_buffer
             /\ call' = [op |-> "compute", current |-> s, time |-> current_time,
                         pre |-> [pid |-> pid, delay_buffer |-> delay_buffer],
                         ret |-> r, n |-> call.n + 1]
    /\ UNCHANGED <<cfgVars, pc, clock, pose, loopVars, arrivalVars, cmd, sink, hist>>

\* controller.reset()
CtlReset ==
    /\ call.n < MaxCalls
    /\ pid' = ControllerReset(pid)
    /\ delay_buffer' = NoBuffers
    /\ call' = [op |-> "reset", pre |-> [pid |-> pid, delay_buffer |-> delay_buffer],
                n |-> call.n + 1]
    /\ UNCHANGED <<cfgVars, pc, clock, pose, loopVars, arrivalVars, cmd, sink, hist>>

NextCtl == CtlCompute \/ CtlReset

SpecCtl == InitCtl /\ [][NextCtl]_vars

(***************************************************************************)
(* The delay compensator of PlaneController: _apply_smith_predictor and    *)
(* _get_delayed_command called with arbitrary commands and timestamps, and *)
(* the clearing of the buffers by reset().  Both methods take the buffer   *)
(* as an argument and never read the axis name, so the calls are made on   *)
(* delay_buffer_x.                                                         *)
(***************************************************************************)
DelayCommands == {Num(-200), Zero, Num(400)}
\* target times in half ticks, from before the first to after the last timestamp
DelayTargets == {Rat(k, 2 * TicksPerSecond) : k \in (-1)..(2 * MaxDelayStamp + 1)}

InitDelay ==
    /\ driver = "plane"
    /\ auto = FALSE
    /\ output_limit = MAX_STICK_OUTPUT
    /\ config = PlaneControllerConfig
    /\ pc = "delay"
    /\ reset_mask = PLANE_PID_RESET_ON_APPROACH.reset_mask
    /\ NoSdk
    /\ clock = 0
    /\ pose = None
    /\ snap = None
    /\ target_index = 0
    /\ target = NoTarget
    /\ loop_count = 0
    /\ reached = FALSE
    /\ in_tolerance_since = None
    /\ pid_has_reset = FALSE
    /\ pid_mute_until = Zero
    /\ pid = NewController("plane", MAX_STICK_OUTPUT)
    /\ delay_buffer = NoBuffers
    /\ cmd = None
    /\ sink = NoSink
    /\ hist = NoHist
    /\ call = [op |-> "none", mono |-> TRUE, last |-> 0, n |-> 0]

\* controller._apply_smith_predictor(command, buffer, current_time, axis)
DelaySmith ==
    /\ call.n < MaxCalls
    /\ \E command \in DelayCommands, current_time \in 0..MaxDelayStamp :
          \E r \in {ApplySmithPredictor(config, command, delay_buffer.x, current_time)} :
             /\ delay_buffer' = [delay_buffer EXCEPT !.x = r.buffer]
             /\ call' = [op |-> "smith", command |-> command,
                         time |-> current_time, pre |-> delay_buffer.x,
                         ret |-> r.command,
                         mono |-> call.mono /\ call.last <= current_time,
                         last |-> current_time, n |-> call.n + 1]
    /\ UNCHANGED <<cfgVars, pc, clock, pose, loopVars, arrivalVars, pid, cmd, sink, hist>>

\* controller._get_delayed_command(buffer, target_time)
DelayLookup ==
    /\ call.n < MaxCalls
    /\ \E target_time \in DelayTargets :
          call' = [op |-> "lookup", target |-> target_time,
                   ret |-> GetDelayedCommand(delay_buffer.x, target_time),
                   mono |-> call.mono, last |-> call.last, n |-> call.n + 1]
    /\ UNCHANGED <<cfgVars, pc, clock, pose, loopVars, arrivalVars, ctrlVars, cmd, sink, hist>>

\* "self.delay_buffer_x.clear(); self.delay_buffer_y.clear()" of reset()
DelayClear ==
    /\ call.n < MaxCalls
    /\ delay_buffer' = NoBuffers
    /\ call' = [op |-> "clear", mono |-> call.mono, last |-> call.last, n |-> call.n + 1]
    /\ UNCHANGED <<cfgVars, pc, clock, pose, loopVars, arrivalVars, pid, cmd, sink, hist>>

NextDelay == DelaySmith \/ DelayLookup \/ DelayClear

SpecDelay == InitDelay /\ [][NextDelay]_vars

(***************************************************************************)
(* PlaneController._apply_gain_scheduling called with arbitrary distances, *)
(* for several settings of the distance_near and distance_far attributes   *)
(* (plane_main.py assigns both after construction).                        *)
(***************************************************************************)
\* <<distance_near, distance_far>>: the shipped band, the constructor's
\* defaults, an empty band and a reversed one
GainBands ==
    { <<Rat(5, 10), Num(1)>>, <<Rat(3, 10), Num(1)>>,
      <<Rat(5, 10), Rat(5, 10)>>, <<Num(1), Rat(5, 10)>> }
\* distances around and at the thresholds and at the midpoints of the bands
GainDistances ==
    { Zero, Rat(29, 100), Rat(3, 10), Rat(49, 100), Rat(5, 10), Rat(65, 100),
      Rat(75, 100), Num(1), Rat(101, 100), Num(2) }

InitGain ==
    /\ driver = "plane"
    /\ auto = FALSE
    /\ output_limit = MAX_STICK_OUTPUT
    /\ \E b \in GainBands :
          config = [PlaneControllerConfig EXCEPT !.distance_near = b[1],
                                                !.distance_far = b[2]]
    /\ pc = "gain"
    /\ reset_mask = PLANE_PID_RESET_ON_APPROACH.reset_mask
    /\ NoSdk
    /\ clock = 0
    /\ pose = None
    /\ snap = None
    /\ target_index = 0
    /\ target = NoTarget
    /\ loop_count = 0
    /\ reached = FALSE
    /\ in_tolerance_since = None
    /\ pid_has_reset = FALSE
    /\ pid_mute_until = Zero
    /\ pid = NewController("plane", MAX_STICK_OUTPUT)
    /\ delay_buffer = NoBuffers
    /\ cmd = None
    /\ sink = NoSink
    /\ hist = NoHist
    /\ call = [op |-> "none", n |-> 0]

\* controller._apply_gain_scheduling(distance)
GainApply ==
    /\ call.n < MaxCalls
    /\ \E distance \in GainDistances :
          /\ pid' = ApplyGainScheduling(config, pid, distance)
          /\ call' = [op |-> "schedule", distance |-> distance,
                      scale |-> GainScale(config, distance), n |-> call.n + 1]
    /\ UNCHANGED <<cfgVars, pc, clock, pose, loopVars, arrivalVars, delay_buffer, cmd, sink, hist>>

NextGain == GainApply

SpecGain == InitGain /\ [][NextGain]_vars

(***************************************************************************)
(* send_stick_control called with arbitrary channel values: what it        *)
(* publishes on the drc/down topic, or the ValueError it raises.           *)
(***************************************************************************)
\* a send_stick_control that does not check the throttle channel
send_stick_control_AnyThrottle(roll, pitch, throttle, yaw) ==
    IF InRange(roll) /\ InRange(pitch) /\ InRange(yaw)
    THEN [raised |-> FALSE,
          published |-> Some([roll |-> roll, pitch |-> pitch, throttle |-> throttle, yaw |-> yaw])]
    ELSE [raised |-> TRUE, published |-> None]

\* the four range checks in the order roll, pitch, throttle, yaw, then the
\* payload's "data" passed to publish
send_stick_control(roll, pitch, throttle, yaw) ==
    IF InRange(roll) /\ InRange(pitch) /\ InRange(throttle) /\ InRange(yaw)
    THEN [raised |-> FALSE,
          published |-> Some([roll |-> roll, pitch |-> pitch, throttle |-> throttle, yaw |-> yaw])]
    ELSE [raised |-> TRUE, published |-> None]

InitStick ==
    /\ driver = "stick"
    /\ auto = FALSE
    /\ output_limit = 0
    /\ config = PlaneControllerConfig
    /\ pc = "stick"
    /\ reset_mask = PLANE_PID_RESET_ON_APPROACH.reset_mask
    /\ NoSdk
    /\ clock = 0
    /\ pose = None
    /\ snap = None
    /\ target_index = 0
    /\ target = NoTarget
    /\ loop_count = 0
    /\ reached = FALSE
    /\ in_tolerance_since = None
    /\ pid_has_reset = FALSE
    /\ pid_mute_until = Zero
    /\ pid = NewController("yaw", MAX_YAW_STICK_OUTPUT)
    /\ delay_buffer = NoBuffers
    /\ cmd = None
    /\ sink = [wire |-> << >>]
    /\ hist = NoHist
    /\ call = [op |-> "none", n |-> 0]

\* send_stick_control(mqtt_client, roll, pitch, throttle, yaw) with values at
\* and next to the ends of the range; sink.wire is what was published so far
StickSend ==
    /\ call.n < StickCalls
    /\ \E roll, pitch, throttle, yaw \in {363, 364, 1684, 1685} :
          \E r \in {send_stick_control(roll, pitch, throttle, yaw)} :
             /\ sink' = [wire |-> IF r.raised THEN sink.wire
                                  ELSE Append(sink.wire, r.published[1])]
             /\ call' = [op |-> "send", roll |-> roll, pitch |-> pitch,
                         throttle |-> throttle, yaw |-> yaw,
                         raised |-> r.raised, before |-> sink.wire, n |-> call.n + 1]
    /\ UNCHANGED <<cfgVars, pc, clock, pose, loopVars, arrivalVars, ctrlVars, cmd, hist>>

SpecStick == InitStick /\ [][StickSend]_vars

(***************************************************************************)
(* The arithmetic of the control core: a PIDController, the delay          *)
(* compensator or the gain scheduler, each called as above.                *)
(***************************************************************************)
InitCore == InitPID \/ InitDelay \/ InitGain

NextCore ==
    \/ pc = "pid" /\ NextPID
    \/ pc = "delay" /\ NextDelay
    \/ pc = "gain" /\ NextGain

SpecCore == InitCore /\ [][NextCore]_vars

(***************************************************************************)
(* The end-to-end scenarios: controllers constructed with the gains of the *)
(* scenarios and no other argument but the Smith-predictor switch, then    *)
(* compute() calls from the scenario's target.                             *)
(***************************************************************************)
\* kp, ki, kd of the plane scenario and of the heading scenario
ScenarioGainsXY == <<Num(400), Num(20), Num(10)>>
ScenarioGainsYaw == <<Num(3), Zero, Num(50)>>
\* PlaneController.__init__ with the scenario's gains: the thresholds keep the
\* constructor's defaults
ScenarioConfig(smith) ==
    [PlaneControllerConfig EXCEPT !.kp_base = ScenarioGainsXY[1],
                                  !.ki_base = ScenarioGainsXY[2],
                                  !.kd_base = ScenarioGainsXY[3],
                                  !.distance_far = Num(1),
                                  !.distance_near = Rat(3, 10),
                                  !.enable_smith_predictor = smith]
\* the controller of each class with the scenario's gains
ScenarioController(d, limit) ==
    LET xy == PIDController(ScenarioGainsXY[1], ScenarioGainsXY[2], ScenarioGainsXY[3],
                            Some(Num(limit)), None)
        yw == PIDController(ScenarioGainsYaw[1], ScenarioGainsYaw[2], ScenarioGainsYaw[3],
                            Some(Num(limit)), None)
    IN  IF d = "plane" THEN [x |-> xy, y |-> xy]
        ELSE IF d = "planeyaw" THEN [x |-> xy, y |-> xy, yaw |-> yw]
        ELSE [yaw |-> yw]
\* target (1.0, 0.0), heading 90
ScenarioTarget == Pose(Num(1), Zero, Num(90))
\* current (0.0, 0.0), heading 100, and two other states
ScenarioPoses ==
    { Pose(Zero, Zero, Num(100)), Pose(Num(1), Rat(5, 10), Num(80)),
      Pose(Num(2), Num(-1), Num(-100)) }

InitScenario ==
    /\ \E d \in Drivers :
          /\ driver = d
          /\ output_limit = 150
          /\ pid = ScenarioController(d, output_limit)
          /\ config \in {ScenarioConfig(smith) : smith \in IF d = "plane" THEN BOOLEAN ELSE {TRUE}}
    /\ auto = FALSE
    /\ pc = "scenario"
    /\ reset_mask = PLANE_PID_RESET_ON_APPROACH.reset_mask
    /\ NoSdk
    /\ clock = 0
    /\ pose = None
    /\ snap = None
    /\ target_index = 0
    /\ target = NoTarget
    /\ loop_count = 0
    /\ reached = FALSE
    /\ in_tolerance_since = None
    /\ pid_has_reset = FALSE
    /\ pid_mute_until = Zero
    /\ delay_buffer = NoBuffers
    /\ cmd = None
    /\ sink = NoSink
    /\ hist = NoHist
    /\ call = [op |-> "none", n |-> 0]

\* controller.compute(target..., current..., current_time)
ScenarioCompute ==
    /\ call.n < ScenarioCalls
    /\ \E s \in ScenarioPoses, current_time \in 0..MaxStamp :
          \E r \in {ControllerCompute(config, driver, output_limit, pid, delay_buffer,
                                       ScenarioTarget, s, current_time)} :
             /\ pid' = r.pid
             /\ delay_buffer' = r.delay_buffer
             /\ call' = [op |-> "compute", current |-> s, time |-> current_time,
                         pre |-> [pid |-> pid, delay_buffer |-> delay_buffer],
                         ret |-> r, n |-> call.n + 1]
    /\ UNCHANGED <<cfgVars, pc, clock, pose, loopVars, arrivalVars, cmd, sink, hist>>

NextScenario == ScenarioCompute

SpecScenario == InitScenario /\ [][NextScenario]_vars

(***************************************************************************)
(* normalize_angle, PlaneYawController._normalize_angle and get_yaw_error  *)
(* applied to angles in half degrees.                                      *)
(***************************************************************************)
AngleInputs == {Rat(k, 2) : k \in (-2 * MaxAngle)..(2 * MaxAngle)}
\* the headings get_yaw_error is called with: whole tens of degrees
HeadingInputs == {Num(10 * k) : k \in (-(MaxAngle \div 20))..(MaxAngle \div 20)}

InitAngle ==
    /\ driver = "planeyaw"
    /\ auto = FALSE
    /\ output_limit = MAX_STICK_OUTPUT
    /\ config = PlaneControllerConfig
    /\ pc = "angle"
    /\ reset_mask = PLANE_PID_RESET_ON_APPROACH.reset_mask
    /\ NoSdk
    /\ clock = 0
    /\ pose = None
    /\ snap = None
    /\ target_index = 0
    /\ target = NoTarget
    /\ loop_count = 0
    /\ reached = FALSE
    /\ in_tolerance_since = None
    /\ pid_has_reset = FALSE
    /\ pid_mute_until = Zero
    /\ pid = NewController("planeyaw", MAX_STICK_OUTPUT)
    /\ delay_buffer = NoBuffers
    /\ cmd = None
    /\ sink = NoSink
    /\ hist = NoHist
    /\ \E a \in AngleInputs : call = [op |-> "none", angle |-> a]

\* normalize_angle(angle) and PlaneYawController._normalize_angle(angle)
AngleNormalize ==
    /\ call.op = "none"
    /\ call' = [op |-> "normalize", angle |-> call.angle,
                ret |-> normalize_angle(call.angle),
                planeyaw |-> PlaneYaw_normalize_angle(call.angle)]
    /\ UNCHANGED <<cfgVars, pc, clock, pose, loopVars, arrivalVars, ctrlVars, cmd, sink, hist>>

\* get_yaw_error(target_yaw, current_yaw)
AngleError ==
    /\ call.op = "none"
    /\ \E target_yaw \in HeadingInputs, current_yaw \in {call.angle} :
          call' = [op |-> "error", angle |-> call.angle,
                   target_yaw |-> target_yaw, current_yaw |-> current_yaw,
                   ret |-> get_yaw_error(target_yaw, current_yaw)]
    /\ UNCHANGED <<cfgVars, pc, clock, pose, loopVars, arrivalVars, ctrlVars, cmd, sink, hist>>

NextAngle == AngleNormalize \/ AngleError

SpecAngle == InitAngle /\ [][NextAngle]_vars

(***************************************************************************)
(* Claims about the driver loops                                           *)
(***************************************************************************)
HoverSent == sink = [args |-> Some(Centered), tail_centered |-> HoverCount]
AfterArrivalCheck == pc \in {"control", "emit", "log"} /\ ~reached

\* C1: in each of the three driver loops a target is declared ARRIVED only at
\* a tick where the tracked error is within tolerance, in_tolerance_since is
\* set and now - in_tolerance_since >= stable_time, the timer being the start
\* of the current unbroken run of in-tolerance ticks (a run shorter than
\* stable_time that was broken does not count); a tick that finds the run at
\* least stable_time old declares ARRIVED, and a target is declared ARRIVED at
\* most once.
C1_Arrival ==
    /\ pc = "burst" =>
          /\ WithinTolerance(driver, snap[1], target)
          /\ in_tolerance_since # None
          /\ Le(StableTime(driver), Seconds(clock - in_tolerance_since[1]))
          /\ hist.run_start = in_tolerance_since
          /\ hist.due
    /\ AfterArrivalCheck => ~hist.due
    /\ hist.arrivals <= 1
    /\ hist.arrivals = 1 <=> pc \in {"burst", "arrived_reset", "switch", "input"}

\* C1 witness: a target is being declared ARRIVED after an earlier run of
\* in-tolerance ticks was broken
C1_Witness ==
    /\ pc = "burst"
    /\ hist.arrivals = 1
    /\ hist.excursions = 1

\* C2: while the stability timer runs, the first tick with a tracked error
\* outside its tolerance clears in_tolerance_since; after re-entry the timer
\* is the time of the re-entry tick, so it always equals the start of the
\* current unbroken run of in-tolerance ticks.
C2_NoPartialCredit ==
    /\ (InLoop /\ ~reached /\ pc # "burst") => in_tolerance_since = hist.run_start
    /\ AfterArrivalCheck =>
          (in_tolerance_since = None <=> ~WithinTolerance(driver, snap[1], target))

\* C2 witness: the timer was discarded by an excursion and runs again, from a
\* later time than the start of the run
C2_Witness ==
    /\ AfterArrivalCheck
    /\ hist.excursions = 1
    /\ in_tolerance_since # None
    /\ in_tolerance_since[1] > 0

\* C3: reset-on-approach fires at most once per target: pid_has_reset is true
\* from the tick that fired it until a new target is selected, and a second
\* drop below trigger_distance starts no second reset and no second mute
\* window.
C3_ResetOnce ==
    /\ hist.resets <= 1
    /\ pid_has_reset <=> hist.resets = 1
    /\ ~pid_has_reset => pid_mute_until = Zero
    /\ "selective_reset" \in hist.called => hist.resets = 1

\* C3 witness: the distance dropped below trigger_distance, rose above it and
\* dropped below it again on the same target
C3_Witness ==
    /\ driver = "plane"
    /\ hist.dips = 2
    /\ hist.resets = 1
    /\ pid_has_reset
    /\ pc = "arrival"

\* C4 (as amended): on every tick whose mute test finds now < mute_until the
\* plane driver emits roll = pitch = 1024 and calls no compute(); the PID
\* state and the delay buffers are as they were before the tick unless this
\* is the tick on which reset-on-approach fired, whose selective reset has
\* changed the PID state before the mute test.
C4_MutedTick ==
    hist.tick = "muted" =>
       /\ driver = "plane"
       /\ pc = "emit" => cmd = Some(Centered)
       /\ pc = "log" => sink.args = Some(Centered)
       /\ "compute" \notin hist.called
       /\ hist.dirty => "selective_reset" \in hist.called

\* C4 witness: a muted tick after the one that fired the reset, with commands
\* waiting in the delay buffer
C4_Witness ==
    /\ hist.tick = "muted"
    /\ pc = "log"
    /\ hist.called = {}
    /\ delay_buffer.x # <<>>

\* C4 as stated: every tick inside the mute window leaves the PID state and
\* the delay buffers as they were before the tick
C4_AsStated ==
    hist.tick = "muted" =>
       /\ pc = "emit" => cmd = Some(Centered)
       /\ "compute" \notin hist.called
       /\ ~hist.dirty

\* C5: when a target is declared ARRIVED the burst of centered commands comes
\* first, then controller.reset(), then the next target; no compute() call
\* and no other command comes in between, and when the next target becomes
\* active in_tolerance_since is unset, pid_has_reset is false, the mute window
\* is cleared and every PID has integral = 0 and last_time unset.
C5_Handover ==
    /\ pc \in {"burst", "arrived_reset", "switch", "input"} => "compute" \notin hist.called
    /\ pc = "arrived_reset" => HoverSent /\ "reset" \notin hist.called
    /\ pc \in {"switch", "input"} => HoverSent /\ "reset" \in hist.called /\ reached
    /\ hist.fresh =>
          /\ HoverSent
          /\ ~reached
          /\ in_tolerance_since = None
          /\ ~pid_has_reset
          /\ pid_mute_until = Zero
          /\ delay_buffer = NoBuffers
          /\ \A a \in DOMAIN pid : pid[a].integral = Zero /\ pid[a].last_time = None

\* C5 witness: the second target has just become active
C5_Witness ==
    /\ hist.fresh
    /\ pc = "top"
    /\ target_index = 1

C7_NoPoseTick ==
    [][(pc = "top" /\ pose = None /\ pose' = None /\ pc' # "done") =>
          /\ pc' = "top"
          /\ UNCHANGED <<ctrlVars, arrivalVars, cmd, sink, snap, target, reached>>]_vars

\* C7 witness: the plane loop has run a tick without a pose
C7_Witness ==
    /\ driver = "plane"
    /\ pc = "top"
    /\ pose = None
    /\ loop_count = 1

\* C8: for every output_limit a driver is configured with, each channel of
\* the command passed to send_stick_control is an integer in [364, 1684].
C8_SinkDomain ==
    pc = "emit" =>
       /\ InRange(cmd[1].roll)
       /\ InRange(cmd[1].pitch)
       /\ InRange(cmd[1].yaw)

(***************************************************************************)
(* Claims about PIDController.compute                                      *)
(***************************************************************************)
\* the compute() call just made, seen from the state after it
Computed == call.op = "compute"
CallDt == call.ret[1].dt
CallPre == call.pre[1]
InWindow ==
    CallPre.i_activation_threshold = None
    \/ Le(Abs(call.error), CallPre.i_activation_threshold[1])
Accumulated == Add(CallPre.integral, Mul(call.error, CallDt))
ClampedAccumulated ==
    IF CallPre.output_limit # None /\ Lt(Zero, CallPre.ki)
    THEN LET m == Div(CallPre.output_limit[1], CallPre.ki)
         IN  IF Lt(m, Accumulated) THEN m
             ELSE IF Lt(Accumulated, Neg(m)) THEN Neg(m) ELSE Accumulated
    ELSE Accumulated

MaxIntegral == Div(pid.yaw.output_limit[1], pid.yaw.ki)

\* C11: after any sequence of compute() and reset() calls on a PID with
\* output_limit set and ki > 0, |integral| <= output_limit / ki, so that the
\* integral term ki*integral never exceeds output_limit in magnitude.
C11_AntiWindup ==
    (pid.yaw.output_limit # None /\ Lt(Zero, pid.yaw.ki)) =>
        /\ Le(Abs(pid.yaw.integral), MaxIntegral)
        /\ Le(Abs(Mul(pid.yaw.ki, pid.yaw.integral)), pid.yaw.output_limit[1])

\* C11 witness: a compute() call whose accumulation went past the bound left
\* the integral exactly on the bound
C11_Witness ==
    /\ Computed
    /\ Lt(Zero, CallDt)
    /\ pid.yaw.output_limit # None
    /\ Lt(Zero, pid.yaw.ki)
    /\ Lt(MaxIntegral, Abs(Accumulated))
    /\ Abs(pid.yaw.integral) = MaxIntegral

\* a newly constructed PID with the gains, limit and threshold of p
Fresh(p) == PIDController(p.kp, p.ki, p.kd, p.output_limit, p.i_activation_threshold)

\* the state a reset() leaves behind
AfterReset ==
    call.op = "reset" =>
        /\ pid.yaw.integral = Zero
        /\ pid.yaw.last_error = Zero
        /\ pid.yaw.last_time = None
        /\ pid.yaw = Fresh(CallPre)
\* a compute() made right after a reset()
ResetThenCompute ==
    (call.op = "reset" /\ call'.op = "compute") =>
        /\ call'.ret[1] = PIDCompute(Fresh(pid.yaw), call'.error, call'.time)
        /\ call'.ret[1].p = Mul(pid.yaw.kp, call'.error)
        /\ call'.ret[1].i = Zero
        /\ call'.ret[1].d = Zero
\* a reset() made right after a reset()
ResetTwice == (call.op = "reset" /\ call'.op = "reset") => pid' = pid

\* C13: after reset() a PID has integral = 0, last_error = 0 and last_time
\* unset; the next compute(error, now) returns exactly what a newly constructed
\* PID with the same gains returns for the same arguments, with no integral and
\* no derivative contribution; a second reset() changes nothing.
C13_Reset == []AfterReset /\ [][ResetThenCompute /\ ResetTwice]_vars

\* C13 witness: the third call is a compute() with a non-zero error on a PID
\* with integral gain, made right after a reset() (only reset() unsets
\* last_time), and it returned no integral and no derivative term
C13_Witness ==
    /\ Computed
    /\ call.n = 3
    /\ CallPre.last_time = None
    /\ call.error # Zero
    /\ pid.yaw.ki # Zero
    /\ call.ret[1].i = Zero
    /\ call.ret[1].d = Zero

\* the PID has an anti-windup bound
Bounded == pid.yaw.output_limit # None /\ Lt(Zero, pid.yaw.ki)
\* a compute() call after the first of a run with a constant positive error
RampStep ==
    (call.op = "compute" /\ call'.op = "compute") =>
        IF Bounded /\ pid.yaw.integral = MaxIntegral
        THEN pid'.yaw.integral = MaxIntegral
        ELSE /\ Lt(pid.yaw.integral, pid'.yaw.integral)
             /\ Bounded => Le(pid'.yaw.integral, MaxIntegral)
\* the first call of a run leaves the integral at 0
RampStart == (Computed /\ call.n = 1) => pid.yaw.integral = Zero

\* C24: for all sequences of compute() calls with a constant positive error,
\* i_activation_threshold unset and strictly increasing timestamps, the
\* integral strictly increases on each call after the first until it is
\* clamped to output_limit / ki, and stays at that value on every later call.
C24_Ramp == []RampStart /\ [][RampStep]_vars

\* C24 witness: the fifth call or a later one of a run found the integral,
\* which had been growing, on the bound and left it there
C24_Witness ==
    /\ Computed
    /\ call.n >= 5
    /\ Bounded
    /\ Lt(Zero, CallDt)
    /\ CallPre.integral = MaxIntegral
    /\ pid.yaw.integral = MaxIntegral

(***************************************************************************)
(* Claims about the composite controllers                                  *)
(***************************************************************************)
\* the output limit as a number
Limit == Num(output_limit)
WithinLimit(v) == Le(Neg(Limit), v) /\ Le(v, Limit)
\* the X command of the last plane compute() after delay compensation, before
\* the final limiting
CompensatedX ==
    ApplySmithPredictor(config, call.ret.pid_components.x.output,
                        call.pre.delay_buffer.x, call.time).command

\* C12: every actuator offset returned by compute() of the plane, the
\* plane+heading and the heading-only controller lies in
\* [-output_limit, +output_limit], after any sequence of calls; for the plane
\* controller the bound holds on the value after delay compensation.
C12_OffsetsLimited ==
    Computed =>
        /\ WithinLimit(call.ret.roll_offset)
        /\ WithinLimit(call.ret.pitch_offset)
        /\ WithinLimit(call.ret.yaw_offset)

\* C12 witness: a plane compute() whose compensated X command lay above the
\* limit returned a pitch offset equal to the limit
C12_Witness ==
    /\ Computed
    /\ driver = "plane"
    /\ Lt(Limit, CompensatedX)
    /\ call.ret.pitch_offset = Limit

\* C14 (as amended): after a composite controller's reset() every owned PID
\* is reset (integral = 0, last_error = 0, last_time unset) and for the plane
\* controller both delay buffers are empty, whatever compute() calls preceded
\* it; the live kp and kd of each PID are left as they were before the reset()
\* (for the plane controller: as the last compute() scheduled them).
C14_ResetCascade ==
    call.op = "reset" =>
        /\ \A a \in DOMAIN pid :
              /\ pid[a].integral = Zero
              /\ pid[a].last_error = Zero
              /\ pid[a].last_time = None
              /\ pid[a].kp = call.pre.pid[a].kp
              /\ pid[a].kd = call.pre.pid[a].kd
              /\ pid[a] = Fresh(call.pre.pid[a])
        /\ delay_buffer = NoBuffers

\* C14 witness: a reset() of the plane controller made with accumulated
\* integrals, filled delay buffers and scheduled gains that differ from the base
\* gains, which left the scheduled gains in place
C14_Witness ==
    /\ call.op = "reset"
    /\ driver = "plane"
    /\ call.pre.pid.x.integral # Zero
    /\ call.pre.pid.y.integral # Zero
    /\ call.pre.delay_buffer.x # <<>>
    /\ call.pre.delay_buffer.y # <<>>
    /\ pid.x.kp # config.kp_base
    /\ pid.x.kd # config.kd_base
    /\ pid.x.integral = Zero
    /\ delay_buffer = NoBuffers

\* C14 as stated: after reset() of the plane controller the live kp and kd of
\* each axis PID equal kp_base and kd_base
C14_AsStated ==
    (call.op = "reset" /\ driver = "plane") =>
        \A a \in DOMAIN pid :
            /\ pid[a].integral = Zero
            /\ pid[a].last_error = Zero
            /\ pid[a].last_time = None
            /\ pid[a].kp = config.kp_base
            /\ pid[a].kd = config.kd_base

\* the distance, the scales and the axis errors of the last plane compute()
CallDistance == get_distance(CtlTarget.x, CtlTarget.y, call.current.x, call.current.y)
CallScale == GainScale(config, CallDistance)
CallError(a) == IF a = "x" THEN Sub(CtlTarget.x, call.current.x) ELSE Sub(CtlTarget.y, call.current.y)
\* the gains of the plane controller as compute() and reset() leave them
PlaneGains ==
    /\ config.kp_base = Num(KP_XY)
    /\ config.ki_base = Num(KI_XY)
    /\ config.kd_base = Num(KD_XY)
    /\ \A a \in {"x", "y"} : pid[a].ki = config.ki_base
    /\ pid.x.kp = pid.y.kp
    /\ pid.x.kd = pid.y.kd
    /\ Computed =>
          \A a \in {"x", "y"} :
              LET c == call.ret.pid_components[a]
                  pre == call.pre.pid[a]
              IN  /\ pid[a].kp = Mul(config.kp_base, CallScale[1])
                  /\ pid[a].kd = Mul(config.kd_base, CallScale[2])
                  /\ c.p = Mul(Mul(config.kp_base, CallScale[1]), CallError(a))
                  /\ Lt(Zero, c.dt) =>
                        c.d = Mul(Mul(config.kd_base, CallScale[2]),
                                  Div(Sub(CallError(a), pre.last_error), c.dt))
OnPlane == driver = "plane" => PlaneGains
\* no call changes the base gains or the integral gain of an axis
BaseGainsKept ==
    /\ config' = config
    /\ \A a \in DOMAIN pid : pid'[a].ki = pid[a].ki

\* C17: across any sequence of compute() and reset() calls on the plane
\* controller, kp_base, ki_base, kd_base and the ki of each axis PID never
\* change; with gain scheduling enabled, the kp and kd that each compute() uses
\* on both axes are kp_base*kp_scale and kd_base*kd_scale for the distance of
\* that same call, and the two axes always carry identical kp and kd.
C17_ScheduledGains == []OnPlane /\ [][BaseGainsKept]_vars

\* C17 witness: a plane compute() with dt > 0 that changed the live gains (the
\* call before it was made at a distance with other scales) and returned a
\* non-zero derivative term
C17_Witness ==
    /\ Computed
    /\ driver = "plane"
    /\ config.enable_gain_scheduling
    /\ pid.x.kp # call.pre.pid.x.kp
    /\ pid.x.kd # call.pre.pid.x.kd
    /\ pid.x.kp # config.kp_base
    /\ Lt(Zero, call.ret.pid_components.x.dt)
    /\ call.ret.pid_components.x.d # Zero
    /\ call.pre.pid.x.integral # Zero

(***************************************************************************)
(* Claims about the gain scheduler                                         *)
(***************************************************************************)
Scheduled == call.op = "schedule"
Near == config.distance_near
Far == config.distance_far
FarPair == <<PLANE_GAIN_SCHEDULING_CONFIG.kp_far, PLANE_GAIN_SCHEDULING_CONFIG.kd_far>>
NearPair == <<PLANE_GAIN_SCHEDULING_CONFIG.kp_near, PLANE_GAIN_SCHEDULING_CONFIG.kd_near>>
\* the position of the distance inside the band
BandRatio == Div(Sub(call.distance, Near), Sub(Far, Near))
\* near + (far - near) * ratio, for both scales
Interpolated ==
    <<Add(NearPair[1], Mul(Sub(FarPair[1], NearPair[1]), BandRatio)),
      Add(NearPair[2], Mul(Sub(FarPair[2], NearPair[2]), BandRatio))>>
Halfway ==
    <<Div(Add(NearPair[1], FarPair[1]), Num(2)), Div(Add(NearPair[2], FarPair[2]), Num(2))>>
Between(a, v, b) == (Le(a, v) /\ Le(v, b)) \/ (Le(b, v) /\ Le(v, a))

C16_NoExtrapolation ==
    Scheduled =>
        /\ (call.scale # NearPair /\ call.scale # FarPair) =>
              /\ Lt(Near, Far)
              /\ call.scale = Interpolated
              /\ Le(Zero, BandRatio)
              /\ Le(BandRatio, Num(1))
        /\ Between(NearPair[1], call.scale[1], FarPair[1])
        /\ Between(NearPair[2], call.scale[2], FarPair[2])

\* C16 witness: a call strictly inside the band returned scales strictly
\* between the near and the far values
C16_Witness ==
    /\ Scheduled
    /\ Lt(Near, call.distance)
    /\ Lt(call.distance, Far)
    /\ Lt(Zero, BandRatio)
    /\ Lt(BandRatio, Num(1))
    /\ Lt(NearPair[1], call.scale[1])
    /\ Lt(call.scale[1], FarPair[1])
    /\ Lt(FarPair[2], call.scale[2])
    /\ Lt(call.scale[2], NearPair[2])

(***************************************************************************)
(* Claims about the delay compensator                                      *)
(***************************************************************************)
Compensated == call.op = "smith"
\* command * response_gain * 150
Compensation(command) == Mul(Mul(command, config.response_gain), Num(150))

\* C18 (as amended): the delay compensator called with an empty buffer stores
\* (now, command) before the lookup, so the delayed command is the command
\* itself and the call returns command - command * response_gain * 150; it
\* returns the command unchanged only when the command is 0.
C18_EmptyBuffer ==
    (Compensated /\ call.pre = <<>>) =>
        /\ call.ret = Sub(call.command, Compensation(call.command))
        /\ (call.ret = call.command) <=> (call.command = Zero)
        /\ delay_buffer.x = << <<call.time, call.command>> >>

\* C18 witness: a call with an empty buffer and a non-zero command returned
\* something else than the command
C18_Witness ==
    /\ Compensated
    /\ call.pre = <<>>
    /\ call.command # Zero
    /\ call.ret # call.command

\* C18 as stated: called with an empty buffer the delay compensator returns
\* the command unchanged
C18_AsStated == (Compensated /\ call.pre = <<>>) => call.ret = call.command

\* the timestamp of entry i of the X buffer, in seconds
StampAt(i) == Seconds(delay_buffer.x[i][1])
CommandAt(i) == delay_buffer.x[i][2]
Entries == 1..Len(delay_buffer.x)

\* C19: after every delay-compensator call in a sequence with non-decreasing
\* timestamps, the delay buffer holds its (timestamp, command) entries in
\* non-decreasing timestamp order, every entry has timestamp >= now - 1.0 (an
\* entry older than 1.0 s is never retained), and the newest entry is
\* (now, command) of that call.
C19_BufferWindow ==
    (Compensated /\ call.mono) =>
        /\ delay_buffer.x # <<>>
        /\ \A i \in Entries : \A j \in Entries : i < j => Le(StampAt(i), StampAt(j))
        /\ \A i \in Entries : Le(Sub(Seconds(call.time), Num(1)), StampAt(i))
        /\ delay_buffer.x[Len(delay_buffer.x)] = <<call.time, call.command>>

\* C19 witness: a call in a sequence with non-decreasing timestamps found two
\* entries, dropped the one older than 1.0 s and kept the other
C19_Witness ==
    /\ Compensated
    /\ call.mono
    /\ Len(call.pre) = 2
    /\ Lt(Seconds(call.pre[1][1]), Sub(Seconds(call.time), Num(1)))
    /\ delay_buffer.x = <<call.pre[2], <<call.time, call.command>> >>

\* v is the delayed command the lookup is specified to return for target_time
\* on the X buffer
Specified(target_time, v) ==
    /\ delay_buffer.x = <<>> => v = Zero
    /\ (delay_buffer.x # <<>> /\ Le(target_time, StampAt(1))) => v = CommandAt(1)
    /\ \A i \in Entries :
          (/\ i > 1
           /\ Le(target_time, StampAt(i))
           /\ \A j \in 1..(i - 1) : Lt(StampAt(j), target_time)) =>
              v = Add(CommandAt(i - 1),
                      Mul(Sub(CommandAt(i), CommandAt(i - 1)),
                          IF StampAt(i) = StampAt(i - 1) THEN Zero
                          ELSE Div(Sub(target_time, StampAt(i - 1)),
                                   Sub(StampAt(i), StampAt(i - 1)))))
    /\ (delay_buffer.x # <<>> /\ \A j \in Entries : Lt(StampAt(j), target_time)) =>
          v = CommandAt(Len(delay_buffer.x))
\* the delayed command that the value returned by the last compensator call implies
ImpliedDelayed == Div(Sub(call.command, call.ret), Mul(config.response_gain, Num(150)))

\* C20: the delayed-command lookup returns the first entry's command when
\* target_time is not after the first entry; otherwise the linear interpolation
\* cmd1 + (cmd2 - cmd1) * (target_time - t1) / (t2 - t1) between the consecutive
\* entries that bracket target_time (ratio 0 when t2 = t1); the last entry's
\* command when target_time is after all entries; and 0.0 for an empty buffer.
\* The compensator looks up target_time = now - delay and returns
\* command - delayed_command * response_gain * 150.
C20_DelayedLookup ==
    /\ call.op = "lookup" => Specified(call.target, call.ret)
    /\ Compensated =>
          Specified(Sub(Seconds(call.time), config.estimated_delay), ImpliedDelayed)

\* C20 witness: a lookup strictly between the timestamps of the first two
\* entries returned a value strictly between their commands
C20_Witness ==
    /\ call.op = "lookup"
    /\ Len(delay_buffer.x) >= 2
    /\ Lt(StampAt(1), call.target)
    /\ Lt(call.target, StampAt(2))
    /\ Lt(Min(CommandAt(1), CommandAt(2)), call.ret)
    /\ Lt(call.ret, Max(CommandAt(1), CommandAt(2)))

(***************************************************************************)
(* Claims about angle normalisation                                        *)
(***************************************************************************)
\* a and b differ by a whole number of turns
SameDirection(a, b) == Div(Sub(a, b), Num(360))[2] = 1
\* r is the angle of [-180, 180] in the direction of a; at the ends of the
\* interval the side a lies on decides
Normalized(a, r) ==
    /\ Le(Num(-180), r)
    /\ Le(r, Num(180))
    /\ SameDirection(a, r)
    /\ r = Num(-180) => Le(a, Num(-180))
    /\ r = Num(180) => Le(Num(180), a)

FirstScenarioCall ==
    /\ Computed
    /\ call.n = 1
    /\ call.current = Pose(Zero, Zero, Num(100))

\* C22 (as amended): with target (1.0, 0.0), current (0.0, 0.0), kp = 400,
\* ki = 20, kd = 10 and output_limit = 150, the first compute() call (dt = 0)
\* of the plane controller has an X-axis PID output of 150 (400*1.0 clamped to
\* the limit) and returns a roll offset of 0; the pitch offset it returns is
\* 150 only with the Smith predictor switched off, and with the predictor on
\* (the constructor's default) it is 150 - 150 * 0.0015 * 150 = 116.25.
C22_PlaneScenario ==
    (FirstScenarioCall /\ driver = "plane") =>
        /\ call.ret.pid_components.x.dt = Zero
        /\ call.ret.pid_components.x.p = Num(400)
        /\ call.ret.pid_components.x.output = Num(150)
        /\ call.ret.roll_offset = Zero
        /\ call.ret.pitch_offset =
              IF config.enable_smith_predictor THEN Rat(11625, 100) ELSE Num(150)

\* C22 witness: the first compute() of the scenario on a plane controller
\* constructed with the defaults returned a pitch offset below the limit
C22_Witness ==
    /\ FirstScenarioCall
    /\ driver = "plane"
    /\ config.enable_smith_predictor
    /\ call.ret.pitch_offset = Rat(11625, 100)
    /\ call.ret.roll_offset = Zero

\* C22 as stated: the first compute() of the scenario returns a pitch offset
\* of 150 and a roll offset of 0
C22_AsStated ==
    (FirstScenarioCall /\ driver = "plane") =>
        /\ call.ret.pitch_offset = Num(150)
        /\ call.ret.roll_offset = Zero

\* the X and Y outputs of the last plane compute(): what the axis PIDs
\* returned, compensated and limited when the Smith predictor is on
PlaneAxisOutput(a) ==
    IF config.enable_smith_predictor
    THEN PlaneLimit(Limit, ApplySmithPredictor(config, call.ret.pid_components[a].output,
                                              call.pre.delay_buffer[a], call.time).command)
    ELSE PlaneLimit(Limit, call.ret.pid_components[a].output)

\* C23: sign conventions on every compute() call: the heading-only controller
\* returns yaw_offset = -(yaw PID output), so heading target 90, current 100
\* with kp = 3, ki = 0, kd = 50 gives error -10 and offset 30 on the first
\* call; the plane and the plane+heading controller return pitch_offset =
\* +(X-axis output) and roll_offset = -(Y-axis output); the plane+heading
\* controller returns yaw_offset = +(yaw PID output).
C23_Signs ==
    Computed =>
        /\ driver = "yaw" =>
              /\ call.ret.yaw_offset = Neg(call.ret.pid_components.yaw.output)
              /\ FirstScenarioCall =>
                    /\ call.ret.pid_components.yaw.p = Num(-30)
                    /\ call.ret.pid_components.yaw.output = Num(-30)
                    /\ call.ret.yaw_offset = Num(30)
        /\ driver = "planeyaw" =>
              /\ call.ret.pitch_offset = call.ret.pid_components.x.output
              /\ call.ret.roll_offset = Neg(call.ret.pid_components.y.output)
              /\ call.ret.yaw_offset = call.ret.pid_components.yaw.output
        /\ driver = "plane" =>
              /\ call.ret.pitch_offset = PlaneAxisOutput("x")
              /\ call.ret.roll_offset = Neg(PlaneAxisOutput("y"))

\* C23 witness: the first compute() of the heading-only controller with
\* target 90 and current 100 returned the offset 30
C23_Witness ==
    /\ FirstScenarioCall
    /\ driver = "yaw"
    /\ call.ret.pid_components.yaw.output = Num(-30)
    /\ call.ret.yaw_offset = Num(30)

(***************************************************************************)
(* Claims about the configuration of a controller                          *)
(***************************************************************************)
\* C25: a controller whose configuration violates distance_far >
\* distance_near (or has an output_limit that is set but not positive) fails
\* at construction, so no such controller ever reaches compute(): every
\* controller whose gains have been scheduled by a compute() call has an
\* ordered band.
C25_Validated ==
    call.op = "schedule" => Lt(config.distance_near, config.distance_far)

(***************************************************************************)
(* Claims about cancellation and the pacing of the driver loops            *)
(***************************************************************************)
\* the loop ends by Ctrl+C after compute() has changed the controller and
\* before the command of that tick was passed to send_stick_control
CancelledBeforeEmit ==
    /\ pc = "emit"
    /\ hist.tick = "computed"
    /\ hist.dirty
    /\ pc' = "done"
    /\ hist'.cause = "interrupt"

\* C26: no cancellation is honored mid-tick: once a tick has read a feedback
\* snapshot a cancellation takes effect only after the tick has emitted its
\* command, so the loop never ends between a compute() call that updated the
\* PID state and the emission of that tick's command.
C26_NoMidTickCancel == [][~CancelledBeforeEmit]_vars

\* a tick that has sent its command comes to its end
TickEnds == pc = "log" /\ pc' = "top"

\* C27: every tick that emitted a command ends with the sleep for the rest of
\* the control interval (skipped only when nothing of the interval is left),
\* so two consecutive command emissions of a driver loop are always separated
\* by that end-of-tick wait.
C27_Paced == [][TickEnds => hist'.waited]_vars

(***************************************************************************)
(* Claims about the arithmetic of the control core                         *)
(***************************************************************************)
\* x is a number: no division by zero went into it
Defined(x) == x[2] # 0
\* the compute() call just made found the timestamp of the call before it, or
\* an earlier one
TimeStoodStill == Computed /\ CallPre.last_time # None /\ Le(CallDt, Zero)

\* the terms, the output and the state of a compute() call are numbers
PidDefined ==
    (pc = "pid" /\ Computed) =>
        /\ Defined(call.ret[1].p) /\ Defined(call.ret[1].i) /\ Defined(call.ret[1].d)
        /\ Defined(call.ret[1].output)
        /\ Defined(pid.yaw.integral)
\* the delayed command read from the buffer, and the compensated command, are numbers
DelayDefined ==
    (pc = "delay" /\ call.op \in {"smith", "lookup"}) => Defined(call.ret)
\* the scales and the scheduled gains are numbers
GainDefined ==
    (pc = "gain" /\ call.op = "schedule") =>
        /\ Defined(call.scale[1]) /\ Defined(call.scale[2])
        /\ \A a \in DOMAIN pid : Defined(pid[a].kp) /\ Defined(pid[a].kd)

\* C28: no division by zero is reachable in the control core for any inputs
\* and any timestamps, equal or decreasing ones included: the derivative
\* divides by dt only when dt > 0, the delayed-command interpolation by
\* t2 - t1 only when t2 > t1, and the gain interpolation by distance_far -
\* distance_near only when distance_far > distance_near.
C28_NoZeroDivision == PidDefined /\ DelayDefined /\ GainDefined

\* C28 witness: a compute() call at the timestamp of the call before it, with
\* another error, has returned a derivative term of 0
C28_Witness ==
    /\ pc = "pid"
    /\ TimeStoodStill
    /\ CallDt = Zero
    /\ call.error # CallPre.last_error
    /\ call.ret[1].d = Zero

(***************************************************************************)
(* Claims about the feedback slot                                          *)
(***************************************************************************)
\* a pose as one message of the feedback source delivered it
Received(s) == s # None /\ s[1] \in Poses(driver)
\* a tick is under way: the pose was read and the tick has not ended
InTick == pc \in {"check", "arrival", "burst", "arrived_reset", "control", "emit", "log"}
\* the slot and the snapshot of a tick hold nothing but whole messages
WholeMessages ==
    /\ pose # None => Received(pose)
    /\ InTick => Received(snap)
\* the receiver thread does not reach into the snapshot of a running tick
SnapshotKept == (InTick /\ pc' # "done" /\ pose' # pose) => snap' = snap
\* a slot that holds a pose holds one ever after
SlotKept == pose # None => pose' # None

\* C29: under any interleaving of the receiver thread and the control loop
\* the position and the orientation used within one tick come from one
\* single received pose message (the slot is replaced as a whole and read
\* once per tick), never from fields of two messages; once a pose has been
\* received the slot never returns to empty.
C29_OneMessage == []WholeMessages /\ [][SnapshotKept /\ SlotKept]_vars

\* C29 witness: a tick is about to call compute() on its snapshot after the
\* receiver thread has replaced the slot by another message
C29_Witness ==
    /\ pc = "control"
    /\ Received(snap)
    /\ Received(pose)
    /\ pose # snap

(***************************************************************************)
(* Claims about send_stick_control                                         *)
(***************************************************************************)
Sent == call.op = "send"
Channels == <<call.roll, call.pitch, call.throttle, call.yaw>>
AllInRange == \A i \in 1..4 : InRange(Channels[i])
\* the message the call was made to publish
StickMessage ==
    [roll |-> call.roll, pitch |-> call.pitch, throttle |-> call.throttle, yaw |-> call.yaw]

\* C30: send_stick_control publishes a stick_control message only when roll,
\* pitch, throttle and yaw are all within [364, 1684]; if any of them is
\* outside it raises ValueError and publishes nothing, so no out-of-range
\* stick value is ever put on the wire.
C30_RangeChecked ==
    /\ Sent =>
          IF AllInRange
          THEN ~call.raised /\ sink.wire = Append(call.before, StickMessage)
          ELSE call.raised /\ sink.wire = call.before
    /\ \A i \in 1..Len(sink.wire) :
          /\ InRange(sink.wire[i].roll) /\ InRange(sink.wire[i].pitch)
          /\ InRange(sink.wire[i].throttle) /\ InRange(sink.wire[i].yaw)

\* C30 witness: after one message was published, a call whose throttle alone
\* is out of range has raised and left the wire as it was
C30_Witness ==
    /\ Sent
    /\ call.raised
    /\ call.throttle = 1685
    /\ InRange(call.roll) /\ InRange(call.pitch) /\ InRange(call.yaw)
    /\ Len(sink.wire) = 1
    /\ sink.wire = call.before

(***************************************************************************)
(* Claims about the delay buffers of a PlaneController                     *)
(***************************************************************************)
\* the last call was a compute() of a plane controller with delay compensation
SmithComputed == Computed /\ driver = "plane" /\ config.enable_smith_predictor
\* delayed_time of that call
DelayedTime == Sub(Seconds(call.time), config.estimated_delay)
\* the lookup on the buffer of axis a, as the call left it, takes neither the
\* "empty buffer" nor the "after all entries" way out
NoFallback(a) ==
    /\ delay_buffer[a] # <<>>
    /\ \E i \in 1..Len(delay_buffer[a]) : Le(DelayedTime, Seconds(delay_buffer[a][i][1]))
\* the command of axis a after compensation with the delayed command read
\* from the buffer that already holds the entry of this call
CompensatedOn(a) ==
    PlaneLimit(Limit, Sub(call.ret.pid_components[a].output,
                          Compensation(GetDelayedCommand(delay_buffer[a], DelayedTime))))
\* both buffers have the same length and the same timestamps
Aligned ==
    /\ Len(delay_buffer.x) = Len(delay_buffer.y)
    /\ \A i \in 1..Len(delay_buffer.x) : delay_buffer.x[i][1] = delay_buffer.y[i][1]

\* C37: the delay compensator appends (now, command) before it looks the
\* delayed command up, so the lookup of a compute() never sees an empty
\* buffer and, estimated_delay being >= 0, never a target time after the
\* newest entry: neither fallback is taken; both axis buffers always have the
\* same length and the same timestamps.
C37_NoFallback ==
    /\ driver = "plane" => Aligned
    /\ SmithComputed =>
          /\ Le(Zero, config.estimated_delay)
          /\ NoFallback("x") /\ NoFallback("y")
          /\ delay_buffer.x[Len(delay_buffer.x)] = <<call.time, call.ret.pid_components.x.output>>
          /\ call.ret.pitch_offset = CompensatedOn("x")
          /\ call.ret.roll_offset = Neg(CompensatedOn("y"))

\* C37 witness: a compute() at a timestamp before the one of the oldest entry
\* (the clock went backwards) found its delayed command in a buffer of two
\* entries or more
C37_Witness ==
    /\ SmithComputed
    /\ Len(delay_buffer.x) >= 2
    /\ call.time < delay_buffer.x[1][1]
    /\ NoFallback("x")
    /\ Aligned

(***************************************************************************)
(* Claims about ticks that skip compute()                                  *)
(***************************************************************************)
\* a tick with a mute window, or without feedback, goes by
Skips ==
    \/ pc = "control" /\ pc' = "emit" /\ hist'.tick = "muted"
    \/ pc = "top" /\ pose = None /\ pc' = "top"
\* the tick calls controller.compute()
Computes == pc = "control" /\ pc' = "emit" /\ hist'.tick = "computed"
\* the error compute() is about to form for axis a
ErrorOf(a) ==
    IF a = "x" THEN Sub(target.x, snap[1].x)
    ELSE IF a = "y" THEN Sub(target.y, snap[1].y)
    ELSE IF driver = "yaw" THEN get_yaw_error(target.yaw, snap[1].yaw)
    ELSE PlaneYaw_normalize_angle(Sub(target.yaw, snap[1].yaw))
\* the time since the PID of axis a was last computed; 0 for a PID that was
\* reset since, or never computed
ElapsedSince(a) ==
    IF pid[a].last_time = None THEN Zero ELSE Seconds(clock - pid[a].last_time[1])
\* the integral of axis a with error * dt of that whole time added
GapIntegral(a) ==
    LET p == pid[a]
        acc == Add(p.integral, Mul(ErrorOf(a), ElapsedSince(a)))
    IN  IF ~Lt(Zero, ElapsedSince(a)) THEN p.integral
        ELSE IF p.i_activation_threshold # None
                /\ Lt(p.i_activation_threshold[1], Abs(ErrorOf(a))) THEN Zero
        ELSE IF p.output_limit # None /\ Lt(Zero, p.ki)
        THEN Max(Neg(Div(p.output_limit[1], p.ki)), Min(Div(p.output_limit[1], p.ki), acc))
        ELSE acc
\* a step on which the PID of axis a is reset
ResetsAxis(a) ==
    \/ pc = "check" /\ a \in reset_mask
    \/ pc = "arrived_reset"
    \/ pc' = "done"

SkipKeeps == Skips => pid' = pid
\* last_time is the time of the last compute() unless a reset came after it
LastTimeTracks ==
    \A a \in DOMAIN pid :
       pid'[a].last_time # pid[a].last_time =>
          \/ Computes /\ pid'[a].last_time = Some(clock)
          \/ ResetsAxis(a) /\ pid'[a].last_time = None
ComputeSpansGap ==
    Computes =>
       \A a \in DOMAIN pid :
          /\ hist'.dt[a] = ElapsedSince(a)
          /\ pid'[a].integral = GapIntegral(a)
          /\ pid'[a].last_time = Some(clock)

\* C38: ticks that skip compute() (no feedback, or a mute window) leave
\* last_time untouched, so the first compute() on an axis after such a gap
\* uses dt equal to the whole time elapsed since that axis's previous
\* compute() and adds error * dt for that whole gap to the integral, unless
\* the axis PID was reset in between: then the first compute() has dt = 0.
C38_GapDt == [][SkipKeeps /\ LastTimeTracks /\ ComputeSpansGap]_vars

\* C38 witness: the first compute() after a mute window, on a plane controller
\* whose X axis alone was reset: dt = 0 on X, and on Y the whole time since
\* the compute() before the window, which went into the integral
C38_Witness ==
    /\ driver = "plane"
    /\ pc = "emit"
    /\ hist.tick = "computed"
    /\ hist.gap
    /\ hist.dt.x = Zero
    /\ Le(PLANE_PID_RESET_ON_APPROACH.mute_duration, hist.dt.y)
    /\ pid.y.integral # Zero

(***************************************************************************)
(* Claims about reset-on-approach and the arrival machine                  *)
(***************************************************************************)
\* reset-on-approach fires: the selective reset, and the mute window starts
ResetFires == pc = "check" /\ ~pid_has_reset /\ pid_has_reset'
\* the tolerance check of the tick
InsideTolerance == Lt(Distance(snap[1], target), TOLERANCE_XY)
\* the stability timer has run for the stable time
TimerDue ==
    /\ in_tolerance_since # None
    /\ Le(PLANE_ARRIVAL_STABLE_TIME, Seconds(clock - in_tolerance_since[1]))

ResetKeepsTimer ==
    ResetFires => /\ in_tolerance_since' = in_tolerance_since
                  /\ reached' = reached
                  /\ pc' = "arrival"
\* the mute decision is reached from the arrival check only
CheckedBeforeMute == (pc # "control" /\ pc' = "control") => pc = "arrival"
\* the arrival check does what it does whether a mute window is open or not
CheckedWhenMuted ==
    (pc = "arrival" /\ ~reached /\ pc' \notin {"arrival", "done"}) =>
        IF ~InsideTolerance THEN in_tolerance_since' = None /\ pc' = "control"
        ELSE IF in_tolerance_since = None
        THEN in_tolerance_since' = Some(clock) /\ pc' = "control"
        ELSE /\ in_tolerance_since' = in_tolerance_since
             /\ pc' = IF TimerDue THEN "burst" ELSE "control"

\* C39: reset-on-approach does not touch the arrival machine: firing the
\* selective reset and starting the mute window leaves in_tolerance_since
\* unchanged, and the tolerance check and the stability timer are evaluated
\* on every tick with feedback, muted ticks included, before the mute
\* decision is taken.
C39_ArrivalUntouched == [][ResetKeepsTimer /\ CheckedBeforeMute /\ CheckedWhenMuted]_vars

\* C39 witness: the tick on which reset-on-approach fired has come to the
\* mute decision, muted, with the stability timer that an earlier tick
\* started still running
C39_Witness ==
    /\ pc = "control"
    /\ "selective_reset" \in hist.called
    /\ Muted(clock, pid_mute_until)
    /\ in_tolerance_since # None
    /\ in_tolerance_since[1] < clock

(***************************************************************************)
(* MQTTClient (djisdk/core/mqtt_client.py of scripts/python and of         *)
(* pythonSDK): threads that call publish() and cleanup_request(), and the  *)
(* network thread that runs _on_message.                                   *)
(***************************************************************************)
\* no control loop runs
NoFlight ==
    /\ auto = FALSE
    /\ output_limit = 0
    /\ config = PlaneControllerConfig
    /\ reset_mask = PLANE_PID_RESET_ON_APPROACH.reset_mask
    /\ pc = "sdk"
    /\ clock = 0
    /\ pose = None
    /\ snap = None
    /\ target_index = 0
    /\ target = NoTarget
    /\ loop_count = 0
    /\ reached = FALSE
    /\ in_tolerance_since = None
    /\ pid_has_reset = FALSE
    /\ pid_mute_until = Zero
    /\ pid = NewController("yaw", MAX_YAW_STICK_OUTPUT)
    /\ delay_buffer = NoBuffers
    /\ cmd = None
    /\ sink = NoSink
    /\ hist = NoHist
    /\ call = [op |-> "none", n |-> 0]

flightVars == <<driver, auto, output_limit, config, reset_mask, pc, clock, pose, loopVars, arrivalVars, ctrlVars, cmd, sink, hist, call>>

\* the threads that call publish(); each call carries a tid of its own
Callers == {1, 2}
TidOf(c) == IF c = 1 THEN "tid-1" ELSE "tid-2"
Tids == {TidOf(c) : c \in Callers}
\* a tid that no request carries
UnknownTid == "tid-x"
\* messages the network thread handles
MaxMessages == 2
\* messages the network thread handles when all are pushes
MaxPushes == 3
\* calls of cleanup_request beside the one that follows a timeout
MaxCleanups == 1
\* the height above the ellipsoid at the take-off point, in metres
TakeoffHeight == 5

\* the values of payload['info']: no such key, {}, objects with a code and
\* with or without a message, and a string
InfoValues ==
    { [kind |-> "absent", code |-> None, message |-> None],
      [kind |-> "object", code |-> None, message |-> None],
      [kind |-> "object", code |-> Some(0), message |-> None],
      [kind |-> "object", code |-> Some(1), message |-> Some("Test error")],
      [kind |-> "object", code |-> Some(1), message |-> None],
      [kind |-> "string", code |-> None, message |-> None] }

\* bool(info)
InfoTruthy(info) ==
    \/ info.kind = "string"
    \/ info.kind = "object" /\ (info.code # None \/ info.message # None)

\* the values of payload['data']: no such key, null, and objects
NoData == [kind |-> "absent", key |-> "", height |-> None]
NullData == [kind |-> "null", key |-> "", height |-> None]
EmptyData == [kind |-> "object", key |-> "", height |-> None]
ResponseData == [kind |-> "object", key |-> "value", height |-> None]
OsdData(height) == [kind |-> "object", key |-> "", height |-> height]
DataValues == {NoData, ResponseData}
\* payload.get('data', {})
DataOf(payload) == IF payload.data.kind = "absent" THEN EmptyData ELSE payload.data

\* messages on thing/product/{sn}/services_reply
Reply(tid, info, data) == [method |-> "reply", tid |-> tid, info |-> info, data |-> data]
\* messages on thing/product/{sn}/drc/up
OsdInfoPush(data) == [method |-> "osd_info_push", tid |-> None, info |-> [kind |-> "absent", code |-> None, message |-> None], data |-> data]

\* the heights an osd_info_push carries: null, and metres
Heights == {None, Some(0), Some(TakeoffHeight), Some(TakeoffHeight + 2)}
\* a reply no request waits for
Stray(tid) == Reply(tid, [kind |-> "object", code |-> Some(0), message |-> None], ResponseData)

\* what the broker can deliver: replies to the requests it was handed, each
\* any number of times, messages with no tid, an empty or an unknown one, and
\* pushes; where no request is made, pushes of every kind
Deliverable ==
    IF driver = "osd"
    THEN {OsdInfoPush(d) : d \in {NoData, NullData} \cup {OsdData(h) : h \in Heights}}
         \cup {Stray(None)}
    ELSE {Reply(Some(t), i, d) : t \in broker, i \in InfoValues, d \in DataValues}
         \cup {Stray(t) : t \in {None, Some(""), Some(UnknownTid)}}
         \cup {OsdInfoPush(OsdData(Some(TakeoffHeight)))}

\* Future.set_result / Future.set_exception: a second call raises
\* InvalidStateError and leaves what was set
SetResult(f, v) ==
    IF f.state = "PENDING"
    THEN [state |-> "FINISHED", result |-> Some(v), exception |-> None, sets |-> f.sets + 1]
    ELSE [f EXCEPT !.sets = @ + 1]
SetException(f, e) ==
    IF f.state = "PENDING"
    THEN [state |-> "FINISHED", result |-> None, exception |-> Some(e), sets |-> f.sets + 1]
    ELSE [f EXCEPT !.sets = @ + 1]

\* the locked statement of cleanup_request
cleanup_request_Keep(pending, tid) == pending
cleanup_request(pending, tid) == Pop(pending, tid)

\* future = self.pending_requests.pop(tid, None), under the lock
PopFuture_Get(pending, tid) ==
    [future |-> IF tid \in DOMAIN pending THEN Some(pending[tid]) ELSE None,
     pending |-> pending]
PopFuture(pending, tid) ==
    [future |-> IF tid \in DOMAIN pending THEN Some(pending[tid]) ELSE None,
     pending |-> Pop(pending, tid)]

\* the statements under "if future:": what becomes of the future, and the
\* exception the handler's except clause caught
Complete_Strict(future, payload) ==
    IF payload.info.kind = "object" /\ payload.info.code # Some(0)
    THEN [future |-> SetException(future, "Unknown error"), caught |-> None]
    ELSE [future |-> SetResult(future, DataOf(payload)), caught |-> None]
Complete(future, payload) ==
    IF ~InfoTruthy(payload.info)
    THEN [future |-> SetResult(future, DataOf(payload)), caught |-> None]
    ELSE IF payload.info.kind # "object"
    THEN [future |-> future, caught |-> Some("AttributeError")]
    ELSE IF payload.info.code # Some(0)
    THEN [future |-> SetException(future, IF payload.info.message = None THEN "Unknown error"
                                          ELSE payload.info.message[1]),
          caught |-> None]
    ELSE [future |-> SetResult(future, DataOf(payload)), caught |-> None]

HandleOsd_Truthy(payload, height, takeoff) ==
    IF DataOf(payload).kind # "object"
    THEN [height |-> height, takeoff |-> takeoff, caught |-> Some("AttributeError")]
    ELSE [height |-> DataOf(payload).height,
          takeoff |-> IF DataOf(payload).height \notin {None, Some(0)} /\ takeoff \in {None, Some(0)}
                      THEN DataOf(payload).height ELSE takeoff,
          caught |-> None]
\* the osd_info_push branch of the pythonSDK _on_message: height and
\* takeoff_height after it, and the exception caught
HandleOsd(payload, height, takeoff) ==
    IF DataOf(payload).kind # "object"
    THEN [height |-> height, takeoff |-> takeoff, caught |-> Some("AttributeError")]
    ELSE [height |-> DataOf(payload).height,
          takeoff |-> IF DataOf(payload).height # None /\ takeoff = None
                      THEN DataOf(payload).height ELSE takeoff,
          caught |-> None]

\* get_relative_height()
get_relative_height(height, takeoff) ==
    IF height # None /\ takeoff # None THEN Some(height[1] - takeoff[1]) ELSE None

\* a client of either copy and the threads about to use it
NewClient ==
    /\ NoFlight
    /\ NoHeartbeat
    /\ last_seq = 0
    /\ setup = NoSetup
    /\ variant \in {"scripts", "pythonSDK"}
    /\ pending_requests = EmptyDict
    /\ futures = EmptyDict
    /\ osd_data = [height |-> None]
    /\ takeoff_height = None
    /\ broker = {}
    /\ callers = [c \in Callers |-> [pc |-> "idle"]]
    /\ receiver = IdleRx
    /\ mlog = NoLog

InitMqtt ==
    /\ driver = "sdk"
    /\ NewClient

\* publish() had it handed the request to the broker before it stored the Future
PublishRegister_SendFirst(c) ==
    /\ callers[c].pc = "idle"
    /\ futures' = Put(futures, TidOf(c), NewFuture)
    /\ broker' = broker \cup {TidOf(c)}
    /\ callers' = [callers EXCEPT ![c].pc = "registered"]
    /\ UNCHANGED <<flightVars, heartbeatVars, setup, variant, pending_requests, osd_data, takeoff_height, receiver, mlog>>

\* publish(): the Future is made and stored under the lock
PublishRegister(c) ==
    /\ callers[c].pc = "idle"
    /\ futures' = Put(futures, TidOf(c), NewFuture)
    /\ pending_requests' = Put(pending_requests, TidOf(c), TidOf(c))
    /\ callers' = [callers EXCEPT ![c].pc = "registered"]
    /\ UNCHANGED <<flightVars, heartbeatVars, setup, variant, osd_data, takeoff_height, broker, receiver, mlog>>

\* publish(): self.client.publish(topic, msg_json, qos=1)
PublishSend(c) ==
    /\ callers[c].pc = "registered"
    /\ broker' = broker \cup {TidOf(c)}
    /\ callers' = [callers EXCEPT ![c].pc = "sent"]
    /\ UNCHANGED <<flightVars, heartbeatVars, setup, variant, pending_requests, futures, osd_data, takeoff_height, receiver, mlog>>

\* publish(): the print and "return future"
PublishReturn(c) ==
    /\ callers[c].pc = "sent"
    /\ callers' = [callers EXCEPT ![c].pc = "waiting"]
    /\ mlog' = [mlog EXCEPT !.returned = @ \cup {TidOf(c)},
                            !.left = IF TidOf(c) \in DOMAIN pending_requests
                                     THEN @ \cup {TidOf(c)} ELSE @]
    /\ UNCHANGED <<flightVars, heartbeatVars, setup, variant, pending_requests, futures, osd_data, takeoff_height, broker, receiver>>

\* the caller of publish(): future.result(timeout) returns or raises what
\* the future holds
CallResult(c) ==
    /\ callers[c].pc = "waiting"
    /\ futures[TidOf(c)].state = "FINISHED"
    /\ callers' = [callers EXCEPT ![c].pc = "done"]
    /\ UNCHANGED <<flightVars, heartbeatVars, setup, variant, pending_requests, futures, osd_data, takeoff_height, broker, receiver, mlog>>

\* the caller of publish(): future.result(timeout) times out
CallTimeout(c) ==
    /\ callers[c].pc = "waiting"
    /\ futures[TidOf(c)].state = "PENDING"
    /\ callers' = [callers EXCEPT ![c].pc = "timeout"]
    /\ UNCHANGED <<flightVars, heartbeatVars, setup, variant, pending_requests, futures, osd_data, takeoff_height, broker, receiver, mlog>>

\* cleanup_request(tid), by whatever thread
CleanupRequest(tid) ==
    /\ pending_requests' = cleanup_request(pending_requests, tid)
    /\ mlog' = [mlog EXCEPT !.cleanups = @ + 1,
                            !.cleaned = @ \cup {tid},
                            !.cleanup = Some(tid)]
    /\ UNCHANGED <<flightVars, heartbeatVars, setup, variant, futures, osd_data, takeoff_height, broker, receiver>>

\* the caller of publish() after the timeout: cleanup_request(tid)
CallCleanup(c) ==
    /\ callers[c].pc = "timeout"
    /\ callers' = [callers EXCEPT ![c].pc = "done"]
    /\ CleanupRequest(TidOf(c))

\* cleanup_request of a tid whose caller is done with it, or of an unknown tid
LateCleanup ==
    /\ mlog.cleanups < MaxCleanups
    /\ \E tid \in {UnknownTid} \cup {TidOf(c) : c \in {k \in Callers : callers[k].pc = "done"}} :
          CleanupRequest(tid)
    /\ UNCHANGED callers

\* _on_message up to the end of the locked pop (the whole of it for a
\* message that is handled before, or has no tid, or pops nothing)
OnMessage ==
    /\ receiver.pc = "idle"
    /\ mlog.messages < IF driver = "osd" THEN MaxPushes ELSE MaxMessages
    /\ \E m \in Deliverable :
          /\ IF variant = "pythonSDK" /\ m.method = "osd_info_push"
             THEN \E r \in {HandleOsd(m, osd_data.height, takeoff_height)} :
                     /\ osd_data' = [height |-> r.height]
                     /\ takeoff_height' = r.takeoff
                     /\ receiver' = [IdleRx EXCEPT !.payload = m, !.caught = r.caught]
                     /\ UNCHANGED pending_requests
             ELSE IF m.tid = None \/ m.tid = Some("")
             THEN /\ receiver' = [IdleRx EXCEPT !.payload = m]
                  /\ UNCHANGED <<osd_data, takeoff_height, pending_requests>>
             ELSE \E r \in {PopFuture(pending_requests, m.tid[1])} :
                     /\ pending_requests' = r.pending
                     /\ receiver' = [pc |-> IF r.future = None THEN "idle" ELSE "complete",
                                     payload |-> m, future |-> r.future, caught |-> None]
                     /\ UNCHANGED <<osd_data, takeoff_height>>
          /\ mlog' = [mlog EXCEPT
                         !.messages = @ + 1,
                         !.replied = IF m.tid # None /\ m.method # "osd_info_push" THEN @ \cup {m.tid[1]} ELSE @,
                         !.early = IF m.tid # None /\ m.tid[1] \notin mlog.returned THEN @ \cup {m.tid[1]} ELSE @,
                         !.first = IF /\ @ = None
                                      /\ variant = "pythonSDK"
                                      /\ m.method = "osd_info_push"
                                      /\ m.data.kind = "object"
                                   THEN m.data.height ELSE @,
                         !.relative = None]
    /\ UNCHANGED <<flightVars, heartbeatVars, setup, variant, futures, broker, callers>>

\* _on_message after the lock is released: the statements under "if future:"
OnMessageComplete ==
    /\ receiver.pc = "complete"
    /\ \E r \in {Complete(futures[receiver.future[1]], receiver.payload)} :
          /\ futures' = [futures EXCEPT ![receiver.future[1]] = r.future]
          /\ receiver' = [receiver EXCEPT !.pc = "idle", !.caught = r.caught]
    /\ UNCHANGED <<flightVars, heartbeatVars, setup, variant, pending_requests, osd_data, takeoff_height, broker, callers, mlog>>

\* get_relative_height(), by whatever thread
GetRelativeHeight ==
    /\ variant = "pythonSDK"
    /\ mlog.relative = None
    /\ mlog' = [mlog EXCEPT !.relative = Some(get_relative_height(osd_data.height, takeoff_height))]
    /\ UNCHANGED <<flightVars, heartbeatVars, setup, variant, pending_requests, futures, osd_data, takeoff_height, broker, callers, receiver>>

NextMqtt ==
    \/ \E c \in Callers : PublishRegister(c)
    \/ \E c \in Callers : PublishSend(c)
    \/ \E c \in Callers : PublishReturn(c)
    \/ \E c \in Callers : CallResult(c)
    \/ \E c \in Callers : CallTimeout(c)
    \/ \E c \in Callers : CallCleanup(c)
    \/ LateCleanup
    \/ OnMessage
    \/ OnMessageComplete

SpecMqtt == InitMqtt /\ [][NextMqtt]_vars

\* a pythonSDK client that receives pushes and is asked for the height
InitOsd ==
    /\ driver = "osd"
    /\ NewClient
    /\ variant = "pythonSDK"
NextOsd == OnMessage \/ GetRelativeHeight
SpecOsd == InitOsd /\ [][NextOsd]_vars

(***************************************************************************)
(* Claims about the replies an MQTTClient receives                         *)
(***************************************************************************)
\* the network thread is through with a message that carried a pending tid
Handled == receiver.pc = "idle" /\ receiver.future # None
\* the message carries no info to speak of: no info key, or an empty object
NoInfo(payload) == payload.info.kind = "absent" \/ ~InfoTruthy(payload.info)
\* the future of the handled message was completed from the message, once
CompletedFromMessage ==
    Handled =>
        \E f \in {futures[receiver.future[1]]}, p \in {receiver.payload} :
           /\ f.sets = 1
           /\ f.state = "FINISHED"
           /\ receiver.future[1] \notin DOMAIN pending_requests
           /\ IF NoInfo(p) \/ p.info.code = Some(0)
              THEN f.result = Some(DataOf(p))
              ELSE /\ f.exception # None
                   /\ p.info.message # None => f.exception = p.info.message
\* a step of _on_message on a message with no tid or a tid that is not
\* pending completes no future, and the handler returns
IgnoresOthers ==
    (mlog'.messages # mlog.messages /\ receiver'.future = None) =>
        /\ futures' = futures
        /\ pending_requests' = pending_requests
        /\ receiver'.pc = "idle"

\* C31: when a message arrives whose tid matches a pending request, that
\* request's future is completed exactly once, with the message's data when
\* info is absent or info.code is 0 and with an exception carrying
\* info.message otherwise, and the tid is removed from pending_requests; a
\* message without tid or with a tid that is not pending completes no future
\* and raises nothing.
C31_CompletedOnce == []CompletedFromMessage /\ [][IgnoresOthers]_vars

\* a reply whose info is a string has taken the pending request away and left
\* its future as it was
C31_Lost ==
    /\ Handled
    /\ receiver.caught = Some("AttributeError")
    /\ receiver.future[1] \notin DOMAIN pending_requests
    /\ futures[receiver.future[1]].state = "PENDING"

(***************************************************************************)
(* Claims about cleanup_request and the threads of an MQTTClient           *)
(***************************************************************************)
\* pending_requests holds the tids that were published and neither carried
\* by a handled message nor passed to cleanup_request
PendingExact == DOMAIN pending_requests = DOMAIN futures \ (mlog.replied \cup mlog.cleaned)
\* no future has had set_result or set_exception called on it twice
CompletedAtMostOnce == \A t \in DOMAIN futures : futures[t].sets <= 1
\* cleanup_request(tid) removes the entry of tid, nothing else, and nothing
\* at all when tid is not pending
CleanupRemoves ==
    mlog'.cleanups # mlog.cleanups =>
        /\ pending_requests' = [t \in DOMAIN pending_requests \ {mlog'.cleanup[1]} |-> pending_requests[t]]
        /\ mlog'.cleanup[1] \notin DOMAIN pending_requests => pending_requests' = pending_requests
        /\ futures' = futures
\* a message that carries a tid cleanup_request was called with finds no
\* future and changes none
IgnoredAfterCleanup ==
    (/\ mlog'.messages # mlog.messages
     /\ receiver'.payload.tid # None
     /\ receiver'.payload.tid[1] \in mlog.cleaned) =>
        /\ receiver'.future = None
        /\ receiver'.pc = "idle"
        /\ futures' = futures

\* C32: cleanup_request(tid) removes the pending entry for tid and is a
\* no-op for a tid that is not pending; under any interleaving of concurrent
\* cleanup_request calls, publish calls and replies, pending_requests holds
\* exactly the tids that were published and neither replied to nor cleaned
\* up, a future is completed at most once, and a reply that arrives after
\* cleanup_request(tid) is ignored.
C32_Cleanup == [](PendingExact /\ CompletedAtMostOnce) /\ [][CleanupRemoves /\ IgnoredAfterCleanup]_vars

\* C32 witness: one request timed out and was cleaned up, its reply came
\* afterwards and was ignored, while the other request is still pending
C32_Witness ==
    /\ mlog.cleaned = {"tid-1"}
    /\ callers[1].pc = "done"
    /\ receiver.pc = "idle"
    /\ receiver.payload.tid = Some("tid-1")
    /\ receiver.future = None
    /\ futures["tid-1"].state = "PENDING"
    /\ DOMAIN pending_requests = {"tid-2"}

(***************************************************************************)
(* Claims about publish() and the receive callback                         *)
(***************************************************************************)
\* every request the broker was handed has its tid pending, unless a handled
\* message carried the tid or cleanup_request was called with it
RegisteredBeforeSent ==
    \A t \in broker : t \in DOMAIN pending_requests \cup mlog.replied \cup mlog.cleaned
\* the first message that carries the tid of a request finds its future,
\* unless cleanup_request was called with the tid
ReplyFindsEntry ==
    (/\ mlog'.messages # mlog.messages
     /\ receiver'.payload.tid # None
     /\ receiver'.payload.tid[1] \in Tids \ (mlog.replied \cup mlog.cleaned)) =>
        receiver'.future = receiver'.payload.tid
\* every publish() that has returned left its tid pending
PendingAtReturn == mlog.returned \subseteq mlog.left
\* every publish() that has returned left its tid pending, unless a message
\* with the tid was handled before it returned
PendingAtReturnUnlessReplied == mlog.returned \subseteq (mlog.left \cup mlog.early)
\* after publish() returned the tid is pending until a message carries it or
\* cleanup_request is called with it
StaysPending ==
    \A t \in mlog.returned : t \in DOMAIN pending_requests \cup mlog.replied \cup mlog.cleaned
StaysPendingStep ==
    \A t \in DOMAIN pending_requests \ DOMAIN pending_requests' :
        t \in mlog'.replied \cup mlog'.cleaned

\* C36, as stated: publish() registers the future under its tid before the
\* request is sent to the broker, so a reply is never processed while its
\* pending entry does not yet exist; when publish() returns, tid is pending
\* and stays pending until a reply for it arrives or cleanup_request(tid) is
\* called.
C36_AsStated == [](RegisteredBeforeSent /\ PendingAtReturn /\ StaysPending) /\ [][ReplyFindsEntry /\ StaysPendingStep]_vars

\* C36, amended: publish() registers the future under its tid before the
\* request is sent to the broker, so a reply is never processed while its
\* pending entry does not yet exist; when publish() returns, tid is pending
\* unless a reply for it was handled between the send and the return, and a
\* pending tid stays pending until a reply for it arrives or
\* cleanup_request(tid) is called.
C36_RegisteredFirst == [](RegisteredBeforeSent /\ PendingAtReturnUnlessReplied /\ StaysPending) /\ [][ReplyFindsEntry /\ StaysPendingStep]_vars

\* C36 witness: the reply to a request was handled, and its future
\* completed, before the publish() of the request returned
C36_Witness ==
    /\ callers[1].pc = "waiting"
    /\ "tid-1" \in mlog.returned \ mlog.left
    /\ "tid-1" \in mlog.early
    /\ futures["tid-1"].state = "FINISHED"
    /\ futures["tid-1"].result = Some(ResponseData)

(***************************************************************************)
(* Claims about takeoff_height                                             *)
(***************************************************************************)
\* once set, takeoff_height stays what it is
WriteOnce == takeoff_height # None => takeoff_height' = takeoff_height
\* takeoff_height is the first non-null height an osd_info_push carried
SetByFirst == takeoff_height = mlog.first
\* the latest height is that of the last osd_info_push handled
LatestHeight ==
    (receiver.payload.method = "osd_info_push" /\ receiver.caught = None) =>
        osd_data.height = DataOf(receiver.payload).height
\* what get_relative_height() returned when nothing has arrived since
RelativeHeight ==
    mlog.relative # None =>
        IF osd_data.height = None \/ takeoff_height = None
        THEN mlog.relative[1] = None
        ELSE mlog.relative[1] = Some(osd_data.height[1] - takeoff_height[1])

\* C40: takeoff_height is write-once: it is set by the first osd_info_push
\* message that carries a non-null height and never changes afterwards under
\* any later sequence of messages; get_relative_height() returns the latest
\* height minus takeoff_height, and None whenever the latest height or
\* takeoff_height is missing.
C40_TakeoffHeight == [](SetByFirst /\ LatestHeight /\ RelativeHeight) /\ [][WriteOnce]_vars

\* C40 witness: the first height was 0 metres, a later push carried another
\* height, and get_relative_height() was asked after it
C40_Witness ==
    /\ takeoff_height = Some(0)
    /\ osd_data.height = Some(TakeoffHeight + 2)
    /\ mlog.relative = Some(Some(TakeoffHeight + 2))
    /\ mlog.messages = MaxPushes

(***************************************************************************)
(* HeartbeatKeeper (drc/services/heartbeat.py): the thread that calls      *)
(* start() and stop(), and the sender thread that runs _heartbeat_loop.    *)
(***************************************************************************)
\* self.interval, in ticks of the performance counter
HeartbeatInterval == 2
\* the last tick the performance counter reaches
MaxPerf == 2
\* the largest reading of int(time.time() * 1000)
MaxWall == 1
\* heartbeats handed to client.publish()
MaxBeats == 2
\* sender threads start() creates
MaxStarts == 2

\* _next_seq() when int(time.time() * 1000) reads t: the sequence number,
\* which is also the new last_seq
next_seq_Clock(last, t) == t
next_seq(last, t) == IF t <= last THEN last + 1 ELSE t

InitHeartbeat ==
    /\ driver = "heartbeat"
    /\ NoFlight
    /\ variant = "scripts"
    /\ NoMqtt
    /\ setup = NoSetup
    /\ NoHeartbeat
    /\ last_seq \in 0..MaxWall

\* time passes
PerfTick ==
    /\ perf < MaxPerf
    /\ perf' = perf + 1
    /\ UNCHANGED <<flightVars, mqttVars, setup, running, thread, last_seq, heartbeats, keeper>>

\* start(): nothing when the thread is alive, else the flag, the counters
\* and a new thread
Start ==
    /\ keeper.pc = "idle"
    /\ IF thread.created > 0 /\ thread.alive
       THEN /\ keeper' = [keeper EXCEPT !.op = "skipped"]
            /\ UNCHANGED <<running, thread>>
       ELSE /\ thread.created < MaxStarts
            /\ running' = TRUE
            /\ keeper' = [keeper EXCEPT !.op = "started", !.sent_count = 0, !.failed_count = 0]
            /\ thread' = [created |-> thread.created + 1, alive |-> TRUE, pc |-> "begin",
                          next_tick |-> 0, now |-> 0, wake |-> 0]
    /\ UNCHANGED <<flightVars, mqttVars, setup, last_seq, perf, heartbeats>>

\* stop(): self.running = False; with no thread object that is all of it
StopFlag ==
    /\ keeper.pc = "idle"
    /\ running' = FALSE
    /\ keeper' = [keeper EXCEPT !.pc = IF thread.created > 0 THEN "join" ELSE "idle",
                                !.op = "stop",
                                !.stops = IF @ < 2 THEN @ + 1 ELSE @,
                                !.stopped_at = Len(heartbeats)]
    /\ UNCHANGED <<flightVars, mqttVars, setup, thread, last_seq, perf, heartbeats>>

\* stop(): self.thread.join(timeout=5) returns because the thread has ended
StopJoin ==
    /\ keeper.pc = "join"
    /\ ~thread.alive
    /\ keeper' = [keeper EXCEPT !.pc = "idle", !.op = "stopped"]
    /\ UNCHANGED <<flightVars, mqttVars, setup, running, thread, last_seq, perf, heartbeats>>

\* stop(): self.thread.join(timeout=5) returns after 5 s with the thread alive
StopJoinTimeout ==
    /\ keeper.pc = "join"
    /\ thread.alive
    /\ keeper' = [keeper EXCEPT !.pc = "idle", !.op = "not stopped"]
    /\ UNCHANGED <<flightVars, mqttVars, setup, running, thread, last_seq, perf, heartbeats>>

\* _heartbeat_loop: next_tick = time.perf_counter()
LoopBegin ==
    /\ thread.alive
    /\ thread.pc = "begin"
    /\ thread' = [thread EXCEPT !.pc = "loop", !.next_tick = perf]
    /\ UNCHANGED <<flightVars, mqttVars, setup, running, last_seq, perf, heartbeats, keeper>>

LoopTest_Forever ==
    /\ thread.alive
    /\ thread.pc = "loop"
    /\ thread' = [thread EXCEPT !.pc = "sleep", !.wake = perf]
    /\ UNCHANGED <<flightVars, mqttVars, setup, running, last_seq, perf, heartbeats, keeper>>

\* _heartbeat_loop: "while self.running", and on to the sleep or the send;
\* when the flag is down the finally clause runs and the thread ends
LoopTest ==
    /\ thread.alive
    /\ thread.pc = "loop"
    /\ IF ~running
       THEN thread' = [thread EXCEPT !.pc = "ended", !.alive = FALSE]
       ELSE IF perf < thread.next_tick
       THEN thread' = [thread EXCEPT !.pc = "sleep", !.now = perf,
                                     !.wake = perf + IF HeartbeatInterval < thread.next_tick - perf
                                                     THEN HeartbeatInterval
                                                     ELSE thread.next_tick - perf]
       ELSE /\ Len(heartbeats) < MaxBeats
            /\ thread' = [thread EXCEPT !.pc = "send", !.now = perf]
    /\ UNCHANGED <<flightVars, mqttVars, setup, running, last_seq, perf, heartbeats, keeper>>

\* _heartbeat_loop: time.sleep() returns, not before the time asked for
LoopWake ==
    /\ thread.alive
    /\ thread.pc = "sleep"
    /\ \E p \in perf..MaxPerf :
          /\ p >= thread.wake \/ p = MaxPerf
          /\ perf' = p
    /\ thread' = [thread EXCEPT !.pc = "loop"]
    /\ UNCHANGED <<flightVars, mqttVars, setup, running, last_seq, heartbeats, keeper>>

\* _heartbeat_loop: _next_seq(), the publish with either outcome, the
\* counters and the next tick; now is the reading LoopTest compared
Beat ==
    /\ thread.alive
    /\ thread.pc = "send"
    /\ \E t \in 0..MaxWall, ok \in BOOLEAN :
          \E seq \in {next_seq(last_seq, t)} :
             /\ last_seq' = seq
             /\ heartbeats' = Append(heartbeats, [seq |-> seq, wall |-> t, life |-> thread.created])
             /\ keeper' = IF ok THEN [keeper EXCEPT !.sent_count = @ + 1]
                          ELSE [keeper EXCEPT !.failed_count = @ + 1]
    /\ thread' = [thread EXCEPT !.pc = "loop",
                                 !.next_tick = IF @ + HeartbeatInterval < thread.now
                                               THEN thread.now + HeartbeatInterval
                                               ELSE @ + HeartbeatInterval]
    /\ UNCHANGED <<flightVars, mqttVars, setup, running, perf>>

SenderStep == LoopBegin \/ LoopTest \/ LoopWake \/ Beat
NextHeartbeat == PerfTick \/ Start \/ StopFlag \/ StopJoin \/ StopJoinTimeout \/ SenderStep

SpecHeartbeat == InitHeartbeat /\ [][NextHeartbeat]_vars
\* the sender thread is a thread of the operating system: it keeps running
SpecHeartbeatFair == SpecHeartbeat /\ WF_vars(SenderStep)

(***************************************************************************)
(* Claims about stopping a HeartbeatKeeper                                 *)
(***************************************************************************)
\* stop() has lowered the flag and the sender thread is still alive
Stopping == ~running /\ thread.alive
\* the sender thread has ended
Terminated == thread.created > 0 /\ ~thread.alive
\* a heartbeat is handed to client.publish() by a live sender thread only
PublishedAlive == heartbeats' # heartbeats => thread.alive /\ thread.pc = "send"
\* the keeper is stopped: the flag is down and no sender thread is alive
Stopped == ~running /\ ~thread.alive
\* the steps of stop() on a stopped keeper change nothing of the keeper and
\* stop() returns
StopStoppedKeeps ==
    (Stopped /\ keeper'.op \in {"stop", "stopped", "not stopped"} /\ keeper' # keeper) =>
        /\ UNCHANGED <<running, thread, last_seq, heartbeats>>
        /\ keeper'.sent_count = keeper.sent_count
        /\ keeper'.failed_count = keeper.failed_count
        /\ keeper'.op # "not stopped"
        /\ keeper'.pc = "join" => ~thread'.alive

\* C33: after the heartbeat is stopped, its sender thread eventually
\* terminates and no heartbeat message is published after it has terminated;
\* stopping a heartbeat that is already stopped raises no error and changes
\* nothing.
C33_StopTerminates == (Stopping ~> Terminated) /\ [][PublishedAlive /\ StopStoppedKeeps]_vars

\* C33 witness: a keeper whose sender thread published and was stopped has
\* been stopped a second time, after the thread had ended
C33_Witness ==
    /\ Terminated
    /\ ~running
    /\ keeper.stops = 2
    /\ keeper.op = "stopped"
    /\ keeper.pc = "idle"
    /\ Len(heartbeats) > 0
    /\ thread.created = 1

(***************************************************************************)
(* Claims about the sequence numbers of the heartbeats                     *)
(***************************************************************************)
\* C35: the sequence numbers of the heartbeats sent by one HeartbeatKeeper
\* are strictly increasing over its whole lifetime, including across
\* stop()/start() cycles and when the wall clock does not advance or moves
\* backwards between two heartbeats.
C35_SeqIncreasing ==
    \A i, j \in DOMAIN heartbeats : i < j => heartbeats[i].seq < heartbeats[j].seq

\* C35 witness: two heartbeats of two sender threads, a stop() and a start()
\* between them, the wall clock reading less at the second than at the first
C35_Witness ==
    /\ Len(heartbeats) = 2
    /\ heartbeats[1].life = 1
    /\ heartbeats[2].life = 2
    /\ heartbeats[2].wall < heartbeats[1].wall
    /\ heartbeats[1].seq = heartbeats[1].wall
    /\ last_seq = heartbeats[2].seq

(***************************************************************************)
(* setup_drc_connection (pythonSDK/djisdk/services/commands.py).           *)
(***************************************************************************)
\* heartbeats the thread of a finished setup publishes
MaxSetupBeats == 2

\* what caller.call(method, data) does: it returns the data of the reply, or
\* raises the TimeoutError of the wait or the exception of the future
CallOutcomes ==
    { [kind |-> "return", result |-> Some(0), data |-> Some("data"), message |-> None],
      [kind |-> "return", result |-> Some(0), data |-> None, message |-> None],
      [kind |-> "return", result |-> Some(1), data |-> None, message |-> Some("refused")],
      [kind |-> "return", result |-> Some(1), data |-> None, message |-> None],
      [kind |-> "return", result |-> None, data |-> None, message |-> None],
      [kind |-> "raise", result |-> None, data |-> None, message |-> Some("TimeoutError")],
      [kind |-> "raise", result |-> None, data |-> None, message |-> Some("Test error")] }

\* _call_service: the data returned, or the exception raised
call_service(method, outcome) ==
    IF outcome.kind = "raise"
    THEN [raised |-> outcome.message, value |-> ""]
    ELSE IF outcome.result = Some(0)
    THEN [raised |-> None, value |-> IF outcome.data = None THEN "{}" ELSE outcome.data[1]]
    ELSE [raised |-> Some(method), value |-> ""]

InitSetup ==
    /\ driver = "setup"
    /\ NoFlight
    /\ variant = "pythonSDK"
    /\ NoMqtt
    /\ NoHeartbeat
    /\ last_seq = 0
    /\ \E w \in BOOLEAN : setup = [NoSetup EXCEPT !.pc = "connect", !.wait_for_user = w]

\* a step of setup_drc_connection that calls a service: on to the next step
\* or, with the exception raised, to the except clause
SetupCall(step, method, next) ==
    /\ setup.pc = step
    /\ \E o \in CallOutcomes :
          \E r \in {call_service(method, o)} :
             setup' = IF r.raised = None
                      THEN [setup EXCEPT !.pc = next, !.steps = Append(@, step),
                                         !.results = Append(@, r.value)]
                      ELSE [setup EXCEPT !.pc = "except", !.failed = Some(step), !.exc = r.raised]
    /\ UNCHANGED <<flightVars, mqttVars, heartbeatVars>>

\* mqtt = MQTTClient(...); mqtt.connect(); caller = ServiceCaller(mqtt): the
\* connection is made, or connect() raises outside the try statement
SetupConnect ==
    /\ setup.pc = "connect"
    /\ \/ setup' = [setup EXCEPT !.pc = "auth", !.connected = TRUE, !.steps = Append(@, "connect")]
       \/ setup' = [setup EXCEPT !.pc = "raised", !.failed = Some("connect"),
                                 !.exc = Some("ConnectionRefusedError"),
                                 !.raised = Some("ConnectionRefusedError")]
    /\ UNCHANGED <<flightVars, mqttVars, heartbeatVars>>

\* request_control_auth(caller, ...)
SetupAuth == SetupCall("auth", "cloud_control_auth_request", IF setup.wait_for_user THEN "confirm" ELSE "enter")

\* input(...): Enter, end of input, or Ctrl+C, which no except clause of
\* setup_drc_connection catches
SetupConfirm ==
    /\ setup.pc = "confirm"
    /\ \/ setup' = [setup EXCEPT !.pc = "enter", !.steps = Append(@, "confirm")]
       \/ setup' = [setup EXCEPT !.pc = "except", !.failed = Some("confirm"), !.exc = Some("EOFError")]
       \/ setup' = [setup EXCEPT !.pc = "raised", !.failed = Some("confirm"),
                                 !.exc = Some("KeyboardInterrupt"),
                                 !.raised = Some("KeyboardInterrupt")]
    /\ UNCHANGED <<flightVars, mqttVars, heartbeatVars>>

\* enter_drc_mode(caller, mqtt_broker=..., ...)
SetupEnter == SetupCall("enter", "drc_mode_enter", "heartbeat")

\* heartbeat = start_heartbeat(mqtt, interval=heartbeat_interval)
SetupHeartbeat ==
    /\ setup.pc = "heartbeat"
    /\ setup' = [setup EXCEPT !.pc = "return", !.heartbeat = TRUE, !.steps = Append(@, "heartbeat")]
    /\ UNCHANGED <<flightVars, mqttVars, heartbeatVars>>

\* return mqtt, caller, heartbeat
SetupReturn ==
    /\ setup.pc = "return"
    /\ setup' = [setup EXCEPT !.pc = "returned"]
    /\ UNCHANGED <<flightVars, mqttVars, heartbeatVars>>

SetupExcept_Swallow ==
    /\ setup.pc = "except"
    /\ setup' = [setup EXCEPT !.pc = "returned", !.connected = FALSE]
    /\ UNCHANGED <<flightVars, mqttVars, heartbeatVars>>

\* except Exception as e: mqtt.disconnect(); raise
SetupExcept ==
    /\ setup.pc = "except"
    /\ setup' = [setup EXCEPT !.pc = "raised", !.connected = FALSE, !.raised = setup.exc]
    /\ UNCHANGED <<flightVars, mqttVars, heartbeatVars>>

\* the heartbeat thread that start_heartbeat started publishes
SetupBeat ==
    /\ setup.heartbeat
    /\ setup.beats < MaxSetupBeats
    /\ setup' = [setup EXCEPT !.beats = @ + 1]
    /\ UNCHANGED <<flightVars, mqttVars, heartbeatVars>>

NextSetup ==
    \/ SetupConnect
    \/ SetupAuth
    \/ SetupConfirm
    \/ SetupEnter
    \/ SetupHeartbeat
    \/ SetupReturn
    \/ SetupExcept
    \/ SetupBeat

SpecSetup == InitSetup /\ [][NextSetup]_vars

(***************************************************************************)
(* Claims about setup_drc_connection                                       *)
(***************************************************************************)
\* the steps that succeeded so far are the first ones of the order, the
\* confirmation left out when it is not asked for
SetupOrder == IF setup.wait_for_user THEN <<"connect", "auth", "confirm", "enter", "heartbeat">> ELSE <<"connect", "auth", "enter", "heartbeat">>
InOrder ==
    /\ Len(setup.steps) <= Len(SetupOrder)
    /\ \A i \in DOMAIN setup.steps : setup.steps[i] = SetupOrder[i]
\* a heartbeat thread runs only after enter_drc_mode returned
HeartbeatAfterEnter ==
    (setup.heartbeat \/ setup.beats > 0) =>
        \E i \in DOMAIN setup.steps : setup.steps[i] = "enter" /\ Len(setup.results) = 2
\* setup_drc_connection is over and the authority request or the entry failed
SetupFailed == setup.pc \in {"raised", "returned"} /\ setup.failed \in {Some("auth"), Some("enter")}
FailureCleansUp ==
    SetupFailed =>
        /\ setup.pc = "raised"
        /\ ~setup.connected
        /\ ~setup.heartbeat
        /\ setup.beats = 0
        /\ setup.raised # None
        /\ setup.raised = setup.exc

\* C34: setup_drc_connection performs its steps strictly in the order
\* connect MQTT, request control authority, (optional user confirmation),
\* enter DRC mode, start heartbeat: the heartbeat is started only after
\* enter_drc_mode has succeeded, and if the authority request or the
\* DRC-mode entry fails the MQTT client is disconnected, no heartbeat thread
\* is left running, and the exception is re-raised to the caller.
C34_SetupOrder == InOrder /\ HeartbeatAfterEnter /\ FailureCleansUp

\* C34 witness: after the connection, the authority and the confirmation,
\* the entry into DRC mode was refused and the setup has raised
C34_Witness ==
    /\ setup.pc = "raised"
    /\ setup.wait_for_user
    /\ setup.steps = <<"connect", "auth", "confirm">>
    /\ setup.failed = Some("enter")
    /\ setup.raised = Some("drc_mode_enter")

====
